---- MODULE Spec2Model ----
(***************************************************************************)
(* The Permem TypeScript SDK: the Permem client class (configuration,      *)
(* request building, error classification) and the singleton convenience   *)
(* layer (getInstance / configure / memorize / recall / inject / extract / *)
(* health); the example CLI chat built on the client (its conversation     *)
(* state, extraction at the threshold and on shutdown); the dashboard      *)
(* front end (its token store, its API client and the dashboard page).     *)
(*                                                                         *)
(* Conventions                                                             *)
(*  - an optional value (a field that may be omitted / undefined) is a set *)
(*    with at most one element: {} is undefined, {v} is the value v;       *)
(*  - text that the client measures or URL-encodes (user ids, queries,     *)
(*    message contents) is a sequence of one-character strings; text it    *)
(*    only passes along (urls, api keys, server messages) is a string;     *)
(*  - extractThreshold is a fraction: it is kept in hundredths (0.7 = 70). *)
(***************************************************************************)
EXTENDS Integers, Sequences, FiniteSets, TLC

VARIABLES
  env,       \* process.env: PERMEM_URL and PERMEM_API_KEY, each optional
  clients,   \* every Permem object constructed so far, in construction order
  instance,  \* the singleton: 0 is null, i > 0 is clients[i]
  calls,     \* the invocations in progress or just settled
  got,       \* the object returned by the last getConfig(), optional
  cli,       \* the example CLI chat (examples/cli-chat): its process state
  dash       \* the dashboard front end: its token store, API calls and page

vars == <<env, clients, instance, calls, got, cli, dash>>

\* the value of cli and of dash where that program is not running
NotRunning == [pc |-> "not running"]

----------------------------------------------------------------------------
(* Optional values and JavaScript truthiness *)

None == {}
Some(v) == {v}
Val(o) == CHOOSE v \in o : TRUE

\* a || d for an optional string a
OrStr(o, d) == IF o = None \/ Val(o) = "" THEN d ELSE Val(o)

\* a || d for an optional number a
OrNum(o, d) == IF o = None \/ Val(o) = 0 THEN d ELSE Val(o)

\* a || d for an optional boolean a
OrBool(o, d) == IF o = None \/ Val(o) = FALSE THEN d ELSE Val(o)

\* a || d for an optional text a (a sequence of characters)
OrText(o, d) == IF o = None \/ Val(o) = <<>> THEN d ELSE Val(o)

\* if (a) for an optional string a
TruthyStr(o) == o # None /\ Val(o) # ""

----------------------------------------------------------------------------
(* Configuration *)

DEFAULTS ==
  [url |-> "http://localhost:3333",
   maxContextLength |-> 8000,
   extractThreshold |-> 70]

\* new Permem(): the config parameter defaults to {}
EmptyConfig ==
  [url |-> None, apiKey |-> None, maxContextLength |-> None, extractThreshold |-> None]

\* the constructor: this.config
Constructor(config) ==
  [url |-> OrStr(config.url, DEFAULTS.url),
   apiKey |-> config.apiKey,
   maxContextLength |-> OrNum(config.maxContextLength, DEFAULTS.maxContextLength),
   extractThreshold |-> OrNum(config.extractThreshold, DEFAULTS.extractThreshold)]

\* getConfig(): a shallow copy of this.config
getConfig(client) == client.config

\* A constructed client: its resolved configuration, and (history) the
\* argument and the caller that constructed it.
NewClient(config, by) == [config |-> Constructor(config), args |-> config, by |-> by]

----------------------------------------------------------------------------
(* Text: number formatting and application/x-www-form-urlencoded *)

Digit(d) ==
  CASE d = 0 -> "0" [] d = 1 -> "1" [] d = 2 -> "2" [] d = 3 -> "3" [] d = 4 -> "4"
    [] d = 5 -> "5" [] d = 6 -> "6" [] d = 7 -> "7" [] d = 8 -> "8" [] d = 9 -> "9"

RECURSIVE NatToText(_)
NatToText(n) == IF n < 10 THEN <<Digit(n)>> ELSE NatToText(n \div 10) \o <<Digit(n % 10)>>

\* Number.prototype.toString() of an integer
NumToText(n) == IF n < 0 THEN <<"-">> \o NatToText(-n) ELSE NatToText(n)

\* the urlencoded byte serializer: alphanumerics and * - . _ stay, a space
\* becomes +, every other character is percent-encoded
UrlEncodeChar(c) ==
  CASE c = " " -> <<"+">>
    [] c = "&" -> <<"%", "2", "6">>
    [] c = "=" -> <<"%", "3", "D">>
    [] c = "+" -> <<"%", "2", "B">>
    [] c = "%" -> <<"%", "2", "5">>
    [] c = "?" -> <<"%", "3", "F">>
    [] OTHER -> <<c>>

RECURSIVE UrlEncode(_)
UrlEncode(text) ==
  IF text = <<>> THEN <<>> ELSE UrlEncodeChar(Head(text)) \o UrlEncode(Tail(text))

\* URLSearchParams.set(name, value): replace the first pair of that name, or append
RECURSIVE ParamsSet(_, _, _)
ParamsSet(params, name, value) ==
  IF params = <<>> THEN <<[name |-> name, value |-> value]>>
  ELSE IF Head(params).name = name THEN <<[name |-> name, value |-> value]>> \o Tail(params)
  ELSE <<Head(params)>> \o ParamsSet(Tail(params), name, value)

\* URLSearchParams.toString(): name=value pairs joined by &
RECURSIVE ParamsToString(_)
ParamsToString(params) ==
  IF params = <<>> THEN <<>>
  ELSE UrlEncode(Head(params).name) \o <<"=">> \o UrlEncode(Head(params).value)
       \o (IF Tail(params) = <<>> THEN <<>> ELSE <<"&">> \o ParamsToString(Tail(params)))

\* Array.prototype.join(' ') of the message contents
RECURSIVE JoinContents(_)
JoinContents(messages) ==
  IF messages = <<>> THEN <<>>
  ELSE IF Len(messages) = 1 THEN messages[1].content
  ELSE messages[1].content \o <<" ">> \o JoinContents(Tail(messages))

\* an estimate that rounds down
estimateTokensFloor(messages) == Len(JoinContents(messages)) \div 4

\* Math.ceil(text.length / 4)
estimateTokens(messages) == (Len(JoinContents(messages)) + 3) \div 4

----------------------------------------------------------------------------
(* JSON values, responses, errors, promise outcomes *)

\* JSON.stringify of an object literal: fields whose value is undefined are left out
JsonStringify(obj) == [k \in {k \in DOMAIN obj : obj[k] # None} |-> Val(obj[k])]

JNull == [t |-> "null", f |-> <<>>]
JObject(fields) == [t |-> "object", f |-> fields]

\* v.k for a JSON object v: undefined when the object has no such field
Get(v, k) == IF k \in DOMAIN v.f THEN Some(v.f[k]) ELSE None

\* response.ok
ResponseOk(response) == response.status >= 200 /\ response.status <= 299

\* response.json(): the parsed body, or None when the promise rejects
\* (the body is not JSON, or could not be read)
ResponseJson(response) == response.body

PermemError(message, statusCode) ==
  [name |-> "PermemError", message |-> message, statusCode |-> Some(statusCode)]

\* the engine's own errors: they have no statusCode
TypeError == [name |-> "TypeError", message |-> <<"not an object">>, statusCode |-> None]
SyntaxError == [name |-> "SyntaxError", message |-> <<"Unexpected token">>, statusCode |-> None]

Fulfilled(v) == [state |-> "fulfilled", value |-> v]
Rejected(e) == [state |-> "rejected", reason |-> e]

----------------------------------------------------------------------------
(* Permem.request and the five operations *)

\* a request() that attaches x-api-key whether or not a key is configured
requestAlwaysKey(config, method, path, body) ==
  [url |-> <<config.url>> \o path,
   method |-> method,
   headers |-> ("Content-Type" :> "application/json")
               @@ ("x-api-key" :> OrStr(config.apiKey, "")),
   body |-> IF body = None THEN None ELSE Some(JsonStringify(Val(body)))]

\* the arguments of fetch(): `${this.config.url}${path}` is kept as its parts
request(config, method, path, body) ==
  [url |-> <<config.url>> \o path,
   method |-> method,
   headers |-> ("Content-Type" :> "application/json")
               @@ (IF TruthyStr(config.apiKey)
                   THEN ("x-api-key" :> Val(config.apiKey)) ELSE <<>>),
   body |-> IF body = None THEN None ELSE Some(JsonStringify(Val(body)))]

\* a request() that never reads the body of a non-2xx response and always
\* reports HTTP <status>
requestSettleNoBody(response) ==
  IF ~ResponseOk(response)
  THEN Rejected(PermemError(<<"HTTP ", response.status>>, response.status))
  ELSE IF ResponseJson(response) = None
       THEN Rejected(SyntaxError)
       ELSE Fulfilled(Val(ResponseJson(response)))

\* what request() settles to once fetch() has resolved with `response`
requestSettle(response) ==
  IF ~ResponseOk(response)
  THEN LET error == IF ResponseJson(response) = None
                    THEN JObject("error" :> "Unknown error")
                    ELSE Val(ResponseJson(response))
       IN IF error.t = "null"
          THEN Rejected(TypeError)
          ELSE Rejected(PermemError(
                 IF TruthyStr(Get(error, "error"))
                 THEN <<Val(Get(error, "error"))>>
                 ELSE <<"HTTP ", response.status>>,
                 response.status))
  ELSE IF ResponseJson(response) = None
       THEN Rejected(SyntaxError)
       ELSE Fulfilled(Val(ResponseJson(response)))

\* memorize that falls back to a default user when the id is empty
memorizeRequestDefaultUser(config, content, options) ==
  request(config, "POST", <<"/v1/memories">>,
          Some([content |-> Some(content),
                userId |-> Some(OrText(Some(options.userId), <<"d", "e", "f">>)),
                conversationId |-> options.conversationId,
                async |-> Some(OrBool(options.async, FALSE))]))

\* memorize that sends options.async as it was given, without `|| false`
memorizeRequestAsyncAsGiven(config, content, options) ==
  request(config, "POST", <<"/v1/memories">>,
          Some([content |-> Some(content),
                userId |-> Some(options.userId),
                conversationId |-> options.conversationId,
                async |-> options.async]))

\* memorize: the request
memorizeRequest(config, content, options) ==
  request(config, "POST", <<"/v1/memories">>,
          Some([content |-> Some(content),
                userId |-> Some(options.userId),
                conversationId |-> options.conversationId,
                async |-> Some(OrBool(options.async, FALSE))]))

\* a mapping of the results that lists the last entry first
RECURSIVE memorizeMemoriesLastFirst(_)
memorizeMemoriesLastFirst(results) ==
  IF results = <<>> THEN <<>>
  ELSE LET r == Head(results)
       IN memorizeMemoriesLastFirst(Tail(results))
          \o (IF r.memory = None THEN <<>>
              ELSE <<[id |-> Val(r.memory).id, summary |-> Val(r.memory).summary,
                      type |-> Val(r.memory).type, action |-> r.action]>>)

\* memorize: results.filter((r) => r.memory).map(...)
RECURSIVE memorizeMemories(_)
memorizeMemories(results) ==
  IF results = <<>> THEN <<>>
  ELSE LET r == Head(results)
       IN (IF r.memory = None THEN <<>>
           ELSE <<[id |-> Val(r.memory).id, summary |-> Val(r.memory).summary,
                   type |-> Val(r.memory).type, action |-> r.action]>>)
          \o memorizeMemories(Tail(results))

\* a memorize that treats an answer with stored false as a failure
memorizeThenRejectUnstored(settled) ==
  IF settled.state = "rejected" THEN settled
  ELSE LET response == settled.value
       IN IF response.t = "null" \/ Get(response, "results") = None
          THEN Rejected(TypeError)
          ELSE IF Get(response, "stored") # Some(TRUE)
          THEN Rejected(PermemError(<<"Nothing stored">>, 200))
          ELSE Fulfilled([stored |-> Get(response, "stored"),
                          count |-> OrNum(Get(response, "stored_count"), 0),
                          memories |-> memorizeMemories(Val(Get(response, "results"))),
                          duplicates |-> OrNum(Get(response, "duplicates"), 0)])

\* memorize: the code after `await this.request(...)`
memorizeThen(settled) ==
  IF settled.state = "rejected" THEN settled
  ELSE LET response == settled.value
       IN IF response.t = "null" \/ Get(response, "results") = None
          THEN Rejected(TypeError)
          ELSE Fulfilled([stored |-> Get(response, "stored"),
                          count |-> OrNum(Get(response, "stored_count"), 0),
                          memories |-> memorizeMemories(Val(Get(response, "results"))),
                          duplicates |-> OrNum(Get(response, "duplicates"), 0)])

\* recall: the request
recallRequest(config, query, options) ==
  LET p0 == <<[name |-> <<"q">>, value |-> query],
              [name |-> <<"u", "s", "e", "r", "I", "d">>, value |-> options.userId]>>
      p1 == IF options.limit # None /\ Val(options.limit) # 0
            THEN ParamsSet(p0, <<"l", "i", "m", "i", "t">>, NumToText(Val(options.limit)))
            ELSE p0
      p2 == IF options.mode # None /\ Val(options.mode) # <<>>
            THEN ParamsSet(p1, <<"m", "o", "d", "e">>, Val(options.mode))
            ELSE p1
      p3 == IF options.conversationId # None /\ Val(options.conversationId) # <<>>
            THEN ParamsSet(p2, <<"c", "o", "n", "v", "e", "r", "s", "a", "t", "i", "o", "n", "I", "d">>,
                           Val(options.conversationId))
            ELSE p2
  IN request(config, "GET", <<"/v1/memories/search?", ParamsToString(p3)>>, None)

\* recall: the code after `await this.request(...)`
recallThen(settled) ==
  IF settled.state = "rejected" THEN settled
  ELSE IF settled.value.t = "null" THEN Rejected(TypeError)
  ELSE Fulfilled([memories |-> Get(settled.value, "memories")])

\* inject that sends the default maxContextLength whatever the client's is
injectRequestDefaultMax(config, message, options) ==
  request(config, "POST", <<"/v1/auto/inbound">>,
          Some([message |-> Some(message),
                userId |-> Some(options.userId),
                conversationId |-> options.conversationId,
                contextLength |-> Some(OrNum(options.contextLength, 0)),
                maxContextLength |-> Some(DEFAULTS.maxContextLength)]))

\* inject: the request
injectRequest(config, message, options) ==
  request(config, "POST", <<"/v1/auto/inbound">>,
          Some([message |-> Some(message),
                userId |-> Some(options.userId),
                conversationId |-> options.conversationId,
                contextLength |-> Some(OrNum(options.contextLength, 0)),
                maxContextLength |-> Some(config.maxContextLength)]))

\* extract: the request
extractRequest(config, messages, options) ==
  request(config, "POST", <<"/v1/auto/outbound">>,
          Some([messages |-> Some(messages),
                userId |-> Some(options.userId),
                conversationId |-> options.conversationId,
                contextLength |-> Some(OrNum(options.contextLength, estimateTokens(messages))),
                maxContextLength |-> Some(config.maxContextLength),
                extractThreshold |-> Some(OrNum(options.extractThreshold, config.extractThreshold)),
                async |-> Some(OrBool(options.async, FALSE))]))

\* a client that decides for itself: it never recommends injecting an empty
\* list of memories
passThenOverride(settled) ==
  IF settled.state = "rejected" \/ settled.value.t = "null" THEN settled
  ELSE IF Get(settled.value, "memories") = Some(<<>>)
       THEN Fulfilled(JObject([k \in DOMAIN settled.value.f |->
                                 IF k = "shouldInject" THEN FALSE ELSE settled.value.f[k]]))
       ELSE settled

\* inject, extract: `return response`
passThen(settled) == settled

\* health: the request
healthRequest(config) == request(config, "GET", <<"/health">>, None)

\* health with the try/catch left out
healthThenNoCatch(settled) ==
  IF settled.state = "rejected" THEN settled
  ELSE IF settled.value.t = "null" THEN Rejected(TypeError)
  ELSE Fulfilled(Get(settled.value, "status") = Some("ok"))

\* health: try { return response.status === 'ok' } catch { return false }
healthThen(settled) ==
  IF settled.state = "rejected" THEN Fulfilled(FALSE)
  ELSE IF settled.value.t = "null" THEN Fulfilled(FALSE)
  ELSE Fulfilled(Get(settled.value, "status") = Some("ok"))

\* An invocation inv is a record: its op and that op's arguments.
opRequest(config, inv) ==
  CASE inv.op = "memorize" -> memorizeRequest(config, inv.content, inv.options)
    [] inv.op = "recall" -> recallRequest(config, inv.query, inv.options)
    [] inv.op = "inject" -> injectRequest(config, inv.message, inv.options)
    [] inv.op = "extract" -> extractRequest(config, inv.messages, inv.options)
    [] inv.op = "health" -> healthRequest(config)

opThen(op, settled) ==
  CASE op = "memorize" -> memorizeThen(settled)
    [] op = "recall" -> recallThen(settled)
    [] op = "inject" -> passThen(settled)
    [] op = "extract" -> passThen(settled)
    [] op = "health" -> healthThen(settled)

----------------------------------------------------------------------------
(* Bounds and inputs *)

MaxClients == 2   \* Permem objects constructed in one run
MaxCalls == 1     \* invocations held at once (in flight, or settled and not yet returned)

URL1 == "http://mock-server"
URL2 == "https://api.example.com"
KEY1 == "secret-key"
ENVURL == "https://env.example.com"
ENVKEY == "pk_env"

EmptyText == <<>>
USER1 == <<"u", "1">>
USER2 == <<"a", " ", "&">>
UserIds == {EmptyText, USER1, USER2}

\* configurations used where clients and calls interleave
SomeConfigs ==
  {EmptyConfig,
   [url |-> Some(URL1), apiKey |-> Some(KEY1), maxContextLength |-> Some(4000),
    extractThreshold |-> None],
   [url |-> Some(URL2), apiKey |-> None, maxContextLength |-> Some(100),
    extractThreshold |-> Some(50)]}

\* every combination of omitted, falsy and ordinary values of the four fields
AllConfigs ==
  [url : {None, Some(""), Some(URL1), Some(URL2)},
   apiKey : {None, Some(""), Some(KEY1)},
   maxContextLength : {None, Some(0), Some(-1), Some(4000)},
   extractThreshold : {None, Some(0), Some(-10), Some(50)}]

\* an options object with only userId given (the fields of all four option
\* types; an operation reads its own)
NoOptions(userId) ==
  [userId |-> userId, conversationId |-> None, async |-> None, limit |-> None,
   mode |-> None, contextLength |-> None, extractThreshold |-> None]

\* one invocation of each operation per user id, all other options omitted
PlainInvocations ==
  {[op |-> "memorize", content |-> <<"h", "i">>, options |-> NoOptions(u)] : u \in UserIds}
  \cup {[op |-> "recall", query |-> <<"a", "?">>, options |-> NoOptions(u)] : u \in UserIds}
  \cup {[op |-> "inject", message |-> <<"h", "i">>, options |-> NoOptions(u)] : u \in UserIds}
  \cup {[op |-> "extract", messages |-> <<[role |-> "user", content |-> <<"h", "i">>]>>,
         options |-> NoOptions(u)] : u \in UserIds}
  \cup {[op |-> "health"]}

\* what fetch() may throw
TransportErrors ==
  {[name |-> "TypeError", message |-> <<"fetch failed">>, statusCode |-> None],
   [name |-> "AbortError", message |-> <<"timeout">>, statusCode |-> None]}

\* a well-formed success body of each operation
GoodBody(op) ==
  CASE op = "memorize" ->
         JObject([stored |-> TRUE, stored_count |-> 1, duplicates |-> 0,
                  results |-> <<[action |-> "NEW",
                                 memory |-> Some([id |-> "mem-1", summary |-> "s", type |-> "core"])]>>])
    [] op = "recall" -> JObject([memories |-> <<"mem-1">>])
    [] op = "inject" ->
         JObject([memories |-> <<"mem-1">>, injectionText |-> "text", shouldInject |-> TRUE])
    [] op = "extract" ->
         JObject([shouldExtract |-> TRUE, extracted |-> <<"mem-1">>, skippedDuplicates |-> <<>>])
    [] op = "health" -> JObject([status |-> "ok"])

\* bodies any response may carry: unparsable, null, {}, an error, an empty error
CommonBodies ==
  {None, Some(JNull), Some(JObject(<<>>)), Some(JObject([error |-> "User not found"])),
   Some(JObject([error |-> ""]))}

\* the bodies of an operation's endpoint: the common ones and its own
Bodies(op) ==
  CommonBodies \cup {Some(GoodBody(op))}
  \cup (IF op = "health" THEN {Some(JObject([status |-> "down"]))} ELSE {})

Ops == {"memorize", "recall", "inject", "extract", "health"}

AllResponses == [op \in Ops |-> [status : {200, 404, 500}, body : Bodies(op)]]

FewResponses ==
  [op \in Ops |->
     {[status |-> 200, body |-> Some(GoodBody(op))],
      [status |-> 404, body |-> Some(JObject([error |-> "User not found"]))]}]

\* fewer invocations where configure() interleaves: every operation, and
\* memorize and recall for several user ids
FewInvocations ==
  {inv \in PlainInvocations :
     inv.op = "health" \/ inv.options.userId = USER1
     \/ (inv.op \in {"memorize", "recall"} /\ inv.options.userId = USER2)
     \/ (inv.op = "memorize" /\ inv.options.userId = EmptyText)}

OneError == {[name |-> "TypeError", message |-> <<"fetch failed">>, statusCode |-> None]}

\* Inputs of SpecOps: one client, one invocation at a time, every option of
\* every operation omitted, falsy or ordinary

CONV1 == <<"c", "1">>
BALANCED == <<"b", "a", "l", "a", "n", "c", "e", "d">>
HI == <<"h", "i">>

OpsConfigs ==
  {EmptyConfig,
   [url |-> Some(URL1), apiKey |-> Some(KEY1), maxContextLength |-> Some(4000),
    extractThreshold |-> Some(50)],
   [url |-> None, apiKey |-> Some(""), maxContextLength |-> Some(0),
    extractThreshold |-> Some(0)],
   [url |-> Some(URL2), apiKey |-> Some(KEY1), maxContextLength |-> None,
    extractThreshold |-> None]}

\* the message lists given to extract where its options vary
M0 == <<>>
M1 == <<[role |-> "user", content |-> HI]>>
M2 == <<[role |-> "user", content |-> HI],
        [role |-> "assistant", content |-> <<"a", "b", "c", "d", "e", "f">>]>>

OptionalConversationIds == {None, Some(EmptyText), Some(CONV1)}
OptionalFlags == {None, Some(FALSE), Some(TRUE)}

MemorizeInvocations ==
  {[op |-> "memorize", content |-> c,
    options |-> [NoOptions(u) EXCEPT !.conversationId = cid, !.async = a]] :
     c \in {HI, <<"a", "&", "b">>}, u \in {USER1, USER2},
     cid \in OptionalConversationIds, a \in OptionalFlags}

RecallInvocations ==
  {[op |-> "recall", query |-> q,
    options |-> [NoOptions(USER1) EXCEPT !.limit = l, !.mode = m, !.conversationId = cid]] :
     q \in {<<"a", "?">>, <<"x", " ", "=", "y">>},
     l \in {None, Some(0), Some(1), Some(12)},
     m \in {None, Some(BALANCED)},
     cid \in OptionalConversationIds}

InjectInvocations ==
  {[op |-> "inject", message |-> HI,
    options |-> [NoOptions(u) EXCEPT !.contextLength = n, !.conversationId = cid]] :
     u \in {USER1, USER2}, n \in {None, Some(0), Some(100), Some(9000)},
     cid \in {None, Some(CONV1)}}

ExtractInvocations ==
  {[op |-> "extract", messages |-> ms,
    options |-> [NoOptions(USER1) EXCEPT !.contextLength = n, !.extractThreshold = t,
                                         !.async = a]] :
     ms \in {M0, M1, M2}, n \in {None, Some(0), Some(100)},
     t \in {None, Some(0), Some(90)}, a \in OptionalFlags}

RichInvocations ==
  MemorizeInvocations \cup RecallInvocations \cup InjectInvocations
  \cup ExtractInvocations \cup {[op |-> "health"]}

\* res.json(obj) on the server: the object as the client parses it
ServerBody(obj) == JObject(JsonStringify(obj))

MEM1 == [id |-> "mem-1", summary |-> "s1", type |-> "core"]
MEM2 == [id |-> "mem-2", summary |-> "s2", type |-> "fact"]

\* result lists of the store endpoint: none, only entries without a memory,
\* and entries with and without one mixed
ResultLists ==
  {<<>>,
   <<[action |-> "DUPLICATE", memory |-> None]>>,
   <<[action |-> "UPDATE", memory |-> Some(MEM2)],
     [action |-> "DUPLICATE", memory |-> None],
     [action |-> "NEW", memory |-> Some(MEM1)]>>}

MemorizeBodies ==
  {ServerBody([stored |-> Some(s), stored_count |-> n, duplicates |-> d,
               results |-> Some(rs)]) :
     s \in BOOLEAN, n \in {None, Some(0), Some(2)}, d \in {None, Some(1)},
     rs \in ResultLists}

RecallBodies ==
  {ServerBody([memories |-> Some(ms)]) :
     ms \in {<<>>, <<"mem-2", "mem-1", "mem-3">>}}

InjectBodies ==
  {ServerBody([memories |-> Some(ms), injectionText |-> Some(txt), shouldInject |-> Some(b)]) :
     ms \in {<<>>, <<"mem-1">>}, txt \in {"", "text"}, b \in BOOLEAN}

ExtractBodies ==
  {ServerBody([shouldExtract |-> Some(b), extracted |-> Some(ex),
               skippedDuplicates |-> Some(sk)]) :
     b \in BOOLEAN, ex \in {<<>>, <<"mem-1">>}, sk \in {<<>>, <<"dup">>}}

RichBodies(op) ==
  CASE op = "memorize" -> MemorizeBodies
    [] op = "recall" -> RecallBodies
    [] op = "inject" -> InjectBodies
    [] op = "extract" -> ExtractBodies
    [] op = "health" -> {JObject([status |-> "ok"])}

\* a success with each body of the endpoint, with null and with a body that is
\* not JSON, and one refusal
RichResponses ==
  [op \in Ops |->
     {[status |-> 200, body |-> Some(b)] : b \in RichBodies(op) \cup {JNull}}
     \cup {[status |-> 200, body |-> None],
           [status |-> 404, body |-> Some(JObject([error |-> "User not found"]))]}]

\* Inputs of SpecTokens: message lists of every length up to MaxMessages

MaxMessages == 3   \* messages in one extract call

TokenContents == {EmptyText, <<"a">>, <<"a", "b", "c", "d">>, <<"a", "b", "c", "d", "e">>}

RECURSIVE MessageLists(_)
MessageLists(n) ==
  IF n = 0 THEN {<<>>}
  ELSE MessageLists(n - 1)
       \cup {Append(ms, [role |-> "user", content |-> c]) :
               ms \in {l \in MessageLists(n - 1) : Len(l) = n - 1}, c \in TokenContents}

TokenInvocations ==
  {[op |-> "extract", messages |-> ms, options |-> NoOptions(USER1)] :
     ms \in MessageLists(MaxMessages)}

----------------------------------------------------------------------------
(* The singleton layer and the life of an invocation *)

\* the config getInstance() passes to the constructor
EnvConfig == [EmptyConfig EXCEPT !.url = env.PERMEM_URL, !.apiKey = env.PERMEM_API_KEY]

\* getInstance() that constructs a client on every call
getInstanceFresh ==
  [clients |-> Append(clients, NewClient(EnvConfig, "getInstance")),
   instance |-> Len(clients) + 1]

\* getInstance(): the clients and the singleton after the call
getInstance ==
  IF instance = 0
  THEN [clients |-> Append(clients, NewClient(EnvConfig, "getInstance")),
        instance |-> Len(clients) + 1]
  ELSE [clients |-> clients, instance |-> instance]

\* an operation that, given async: true, sends its request and returns at once
\* without awaiting the response
BeginFireAndForget(i, client, inv, singleton) ==
  IF inv.op \in {"memorize", "extract"} /\ inv.options.async = Some(TRUE)
  THEN [inv |-> inv, client |-> i, singleton |-> singleton, epoch |-> i, pc |-> "done",
        requests |-> <<opRequest(client.config, inv)>>,
        response |-> None, thrown |-> None, outcome |-> Some(Fulfilled(JNull))]
  ELSE [inv |-> inv, client |-> i, singleton |-> singleton, epoch |-> i, pc |-> "fetch",
        requests |-> <<opRequest(client.config, inv)>>,
        response |-> None, thrown |-> None, outcome |-> None]

\* The synchronous part of an operation on client number i, up to its fetch():
\* the request is built from that client's config and sent. epoch (history)
\* is the number of clients constructed when the invocation started.
Begin(i, client, inv, singleton) ==
  [inv |-> inv, client |-> i, singleton |-> singleton, epoch |-> i, pc |-> "fetch",
   requests |-> <<opRequest(client.config, inv)>>,
   response |-> None, thrown |-> None, outcome |-> None]

\* new Permem(config)
NewPermem(Configs) ==
  /\ Len(clients) < MaxClients
  /\ \E config \in Configs : clients' = Append(clients, NewClient(config, "new"))
  /\ UNCHANGED <<cli, dash, env, instance, calls, got>>

\* configure(config) that keeps a singleton that already exists
configureIfUnset(Configs) ==
  /\ Len(clients) < MaxClients
  /\ \E config \in Configs : clients' = Append(clients, NewClient(config, "configure"))
  /\ instance' = IF instance = 0 THEN Len(clients) + 1 ELSE instance
  /\ UNCHANGED <<cli, dash, env, calls, got>>

\* configure(config) that rewrites the config of the singleton that exists
configureInPlace(Configs) ==
  /\ Len(clients) < MaxClients
  /\ \E config \in Configs :
       IF instance = 0
       THEN /\ clients' = Append(clients, NewClient(config, "configure"))
            /\ instance' = Len(clients) + 1
       ELSE /\ clients' = [clients EXCEPT ![instance] = NewClient(config, "configure")]
            /\ instance' = instance
  /\ UNCHANGED <<cli, dash, env, calls, got>>

\* configure(config)
configure(Configs) ==
  /\ Len(clients) < MaxClients
  /\ \E config \in Configs : clients' = Append(clients, NewClient(config, "configure"))
  /\ instance' = Len(clients) + 1
  /\ UNCHANGED <<cli, dash, env, calls, got>>

\* mem.memorize / recall / inject / extract / health on a constructed client
ClientCall(Invocations) ==
  /\ Len(calls) < MaxCalls
  /\ \E i \in 1..Len(clients), inv \in Invocations :
       calls' = Append(calls, [Begin(i, clients[i], inv, FALSE) EXCEPT !.epoch = Len(clients)])
  /\ UNCHANGED <<cli, dash, env, clients, instance, got>>

\* the exported memorize / recall / inject / extract / health
SingletonCall(Invocations) ==
  /\ Len(calls) < MaxCalls
  /\ LET g == getInstance
     IN /\ Len(g.clients) <= MaxClients
        /\ clients' = g.clients
        /\ instance' = g.instance
        /\ \E inv \in Invocations :
             calls' = Append(calls, [Begin(g.instance, g.clients[g.instance], inv, TRUE)
                                       EXCEPT !.epoch = Len(g.clients)])
  /\ UNCHANGED <<cli, dash, env, got>>

\* request() when fetch() throws, wrapping the failure
requestFetchRejectedWrapped(e) == Rejected(PermemError(e.message, 0))

\* request() when fetch() throws: nothing catches it
requestFetchRejected(e) == Rejected(e)

\* fetch() rejects
FetchRejects(Errors) ==
  /\ \E i \in 1..Len(calls), e \in Errors :
       /\ calls[i].pc = "fetch"
       /\ calls' = [calls EXCEPT ![i] =
                      [@ EXCEPT !.pc = "done", !.thrown = Some(e),
                                !.outcome = Some(opThen(calls[i].inv.op, requestFetchRejected(e)))]]
  /\ UNCHANGED <<cli, dash, env, clients, instance, got>>

\* fetch() resolves; a client that sends the request again after a server error
FetchResolvesRetry(Responses) ==
  /\ \E i \in 1..Len(calls) : \E r \in Responses[calls[i].inv.op] :
       /\ calls[i].pc = "fetch"
       /\ calls' = [calls EXCEPT ![i] =
                      IF r.status >= 500 /\ Len(@.requests) < 2
                      THEN [@ EXCEPT !.requests = Append(@, opRequest(clients[calls[i].client].config, calls[i].inv))]
                      ELSE [@ EXCEPT !.pc = "done", !.response = Some(r),
                                     !.outcome = Some(opThen(calls[i].inv.op, requestSettle(r)))]]
  /\ UNCHANGED <<cli, dash, env, clients, instance, got>>

\* fetch() resolves with a response, whose body is then read: the rest of
\* request() and of the operation run to the end (nothing they read is shared).
FetchResolves(Responses) ==
  /\ \E i \in 1..Len(calls) : \E r \in Responses[calls[i].inv.op] :
       /\ calls[i].pc = "fetch"
       /\ calls' = [calls EXCEPT ![i] =
                      [@ EXCEPT !.pc = "done", !.response = Some(r),
                                !.outcome = Some(opThen(calls[i].inv.op, requestSettle(r)))]]
  /\ UNCHANGED <<cli, dash, env, clients, instance, got>>

\* the caller takes the settled promise
Return ==
  /\ \E i \in 1..Len(calls) :
       /\ calls[i].pc = "done"
       /\ calls' = SubSeq(calls, 1, i - 1) \o SubSeq(calls, i + 1, Len(calls))
  /\ UNCHANGED <<cli, dash, env, clients, instance, got>>

\* mem.getConfig()
GetConfig ==
  /\ \E i \in 1..Len(clients) : got' = Some(getConfig(clients[i]))
  /\ UNCHANGED <<cli, dash, env, clients, instance, calls>>

\* a getConfig() that hands out this.config itself: a write to the returned
\* object is a write to the client's configuration
AfterWriteShared(cl, i, obj) == [cl EXCEPT ![i].config = obj]

\* getConfig() returns { ...this.config }, a copy: the clients after the caller
\* has written obj over the object that client i returned
AfterWrite(cl, i, obj) == cl

MUTATED == "http://mutated"

\* the caller overwrites every field of the object the last getConfig() returned
WriteReturned ==
  /\ got # None
  /\ Val(got).url # MUTATED
  /\ \E i \in 1..Len(clients) :
       /\ got = Some(getConfig(clients[i]))
       /\ LET obj == [url |-> MUTATED, apiKey |-> Some("other-key"),
                      maxContextLength |-> 1, extractThreshold |-> 1]
          IN /\ got' = Some(obj)
             /\ clients' = AfterWrite(clients, i, obj)
  /\ UNCHANGED <<cli, dash, env, instance, calls>>

----------------------------------------------------------------------------
(* The example CLI chat (examples/cli-chat/index.ts)                        *)
(*                                                                          *)
(* cli is a record: threshold (EXTRACT_MESSAGE_THRESHOLD), messages,        *)
(* conversationId (the number of the conversation), lastExtractionCount,    *)
(* isClosing, rlClosed (the readline interface has closed), main (where the *)
(* question callback stands), closeHandler (where the close handler         *)
(* stands), exited (process.exit has run) and, as history, exitedBy, turns  *)
(* (chat turns started), llmFailures, turn (what the current turn did), decision (what   *)
(* extractMemories() decided at the end of the last turn), retry (the last  *)
(* end-of-turn extraction changed nothing), lastResult (the outcome the     *)
(* last step delivered to extractMemories) and quits (the calls of          *)
(* extractMemories(true)).                                                  *)

MaxTurns == 6    \* chat turns in one run
MaxClears == 1   \* clear commands in one run
MaxLlmFailures == 1   \* failures of generateText in one run

\* A message is a record of its role and the number of the turn it belongs to.
UserMessage(n) == [role |-> "user", content |-> n]
AssistantMessage(n) == [role |-> "assistant", content |-> n]

\* messages.slice(-10)
Last10(messages) ==
  IF Len(messages) <= 10 THEN messages ELSE SubSeq(messages, Len(messages) - 9, Len(messages))

\* a shouldExtract() that waits for more than the threshold
shouldExtractStrict(c) == Len(c.messages) - c.lastExtractionCount > c.threshold

\* shouldExtract()
shouldExtract(c) == Len(c.messages) - c.lastExtractionCount >= c.threshold

\* an extractMemories whose force flag does not override the threshold
extractProceedsUnforced(c, force) ==
  /\ Len(c.messages) # 0
  /\ Len(c.messages) > c.lastExtractionCount
  /\ shouldExtract(c)

\* extractMemories(force): the three early returns; TRUE when it goes on to
\* call permem.extract
extractProceeds(c, force) ==
  /\ Len(c.messages) # 0
  /\ ~(~force /\ Len(c.messages) <= c.lastExtractionCount)
  /\ ~(~force /\ ~shouldExtract(c))

\* the arguments of permem.extract(formattedMessages, {userId, conversationId})
extractCall(c) ==
  [messages |-> [i \in 1..Len(c.messages) |->
                   [role |-> c.messages[i].role, content |-> c.messages[i].content]],
   userId |-> "cli-chat-user",
   conversationId |-> c.conversationId]

\* What permem.extract settles to: rejected, or fulfilled with a result whose
\* extracted and skippedDuplicates are given by their lengths (None: the
\* field is missing), or fulfilled with null.
ExtractOutcomes ==
  {[state |-> "rejected"], [state |-> "fulfilled", value |-> JNull]}
  \cup {[state |-> "fulfilled", value |-> [extracted |-> e, skippedDuplicates |-> d]] :
          e \in {None, Some(2)}, d \in {Some(0), Some(1)}}

\* result.extracted?.length > 0 || result.skippedDuplicates?.length > 0
Productive(o) ==
  /\ o.state = "fulfilled" /\ o.value # JNull
  /\ \/ (o.value.extracted # None /\ Val(o.value.extracted) > 0)
     \/ (o.value.skippedDuplicates # None /\ Val(o.value.skippedDuplicates) > 0)

\* an extractMemories that records the extraction whenever the call succeeded
afterExtractAlways(c, o) ==
  IF o.state = "fulfilled" /\ o.value # JNull
  THEN [c EXCEPT !.messages = Last10(c.messages),
                 !.lastExtractionCount = Len(Last10(c.messages))]
  ELSE c

\* extractMemories after `await permem.extract(...)`: the try block and the
\* catch that swallows every failure
afterExtract(c, o) ==
  IF Productive(o)
  THEN IF Len(c.messages) > 10
       THEN [c EXCEPT !.messages = Last10(c.messages),
                      !.lastExtractionCount = Len(Last10(c.messages))]
       ELSE [c EXCEPT !.lastExtractionCount = Len(c.messages)]
  ELSE c

\* what permem.inject settles to: rejected, or fulfilled with shouldInject
\* and injectionText
InjectOutcomes ==
  {[state |-> "rejected"]}
  \cup {[state |-> "fulfilled", value |-> [shouldInject |-> b, injectionText |-> t]] :
          b \in BOOLEAN, t \in {"", "memories"}}

\* what generateText settles to
LlmOutcomes == {[state |-> "rejected"], [state |-> "fulfilled"]}

\* the history of a turn that has not begun
NoTurn ==
  [n |-> 0, injectFailed |-> FALSE, system |-> None, replied |-> FALSE,
   extractFailed |-> FALSE, returned |-> FALSE, error |-> FALSE]

\* the process after the module's top level and main() have run
CliStart(threshold) ==
  [pc |-> "running", threshold |-> threshold, messages |-> <<>>, conversationId |-> 0,
   lastExtractionCount |-> 0, isClosing |-> FALSE, rlClosed |-> FALSE,
   main |-> "prompt", closeHandler |-> "idle", exited |-> FALSE, exitedBy |-> "nobody",
   turns |-> 0, llmFailures |-> 0, turn |-> NoTurn, decision |-> None, retry |-> FALSE,
   lastResult |-> None, quits |-> <<>>]

\* prompt(): asks for the next line unless the process is closing
prompt(c) == [c EXCEPT !.main = IF c.isClosing THEN "stopped" ELSE "prompt"]

\* process.exit(0)
exit(c, by) == [c EXCEPT !.exited = TRUE, !.exitedBy = by]

\* a call of extractMemories(true) by the exit command or the close handler:
\* its record in quits
Quit(c, by) ==
  [by |-> by, history |-> c.messages,
   request |-> IF extractProceeds(c, TRUE) THEN Some(extractCall(c)) ELSE None,
   settled |-> FALSE]

\* the record of the call by `by` marked as settled
Settle(quits, by) ==
  [i \in 1..Len(quits) |-> IF quits[i].by = by THEN [quits[i] EXCEPT !.settled = TRUE] ELSE quits[i]]

\* a chat() whose inject is not wrapped in try/catch: its failure ends the turn
afterInjectUncaught(c, o) ==
  IF o.state = "rejected"
  THEN prompt([c EXCEPT !.turn.injectFailed = TRUE, !.turn.error = TRUE])
  ELSE LET memoryContext == IF o.value.shouldInject /\ o.value.injectionText # ""
                            THEN o.value.injectionText ELSE ""
       IN [c EXCEPT !.messages = Append(@, UserMessage(c.turn.n)),
                    !.turn.system = Some(memoryContext),
                    !.main = "llm"]

\* chat() from the settling of inject to the call of generateText: steps 1 to 4
afterInject(c, o) ==
  LET memoryContext == IF o.state = "fulfilled" /\ o.value.shouldInject
                          /\ o.value.injectionText # ""
                       THEN o.value.injectionText ELSE ""
  IN [c EXCEPT !.messages = Append(@, UserMessage(c.turn.n)),
               !.turn.injectFailed = (o.state = "rejected"),
               !.turn.system = Some(memoryContext),
               !.main = "llm"]

\* a clear command that leaves lastExtractionCount as it is
clearKeepCount(c) ==
  prompt([c EXCEPT !.messages = <<>>, !.conversationId = @ + 1,
                   !.turn = NoTurn, !.decision = None, !.retry = FALSE])

\* the clear command
clear(c) ==
  prompt([c EXCEPT !.messages = <<>>, !.conversationId = @ + 1,
                   !.lastExtractionCount = 0,
                   !.turn = NoTurn, !.decision = None, !.retry = FALSE])

\* every step begins with no outcome delivered
Fresh(c) == [c EXCEPT !.lastResult = None]

CliWaiting == cli.pc = "running" /\ ~cli.exited /\ cli.main = "prompt" /\ ~cli.rlClosed

\* the user enters an empty line
CliBlank ==
  /\ CliWaiting
  /\ cli' = prompt(Fresh(cli))
  /\ UNCHANGED <<dash, env, clients, instance, calls, got>>

\* the user enters "clear"
CliClear ==
  /\ CliWaiting
  /\ cli.conversationId < MaxClears
  /\ cli' = clear(Fresh(cli))
  /\ UNCHANGED <<dash, env, clients, instance, calls, got>>

\* the user enters a message: chat() up to `await permem.inject(...)`
CliChat ==
  /\ CliWaiting
  /\ cli.turns < MaxTurns
  /\ cli' = [Fresh(cli) EXCEPT !.turns = @ + 1, !.turn = [NoTurn EXCEPT !.n = cli.turns + 1],
                               !.decision = None, !.main = "inject"]
  /\ UNCHANGED <<dash, env, clients, instance, calls, got>>

\* permem.inject settles
CliInjectSettles ==
  /\ cli.pc = "running" /\ ~cli.exited /\ cli.main = "inject"
  /\ \E o \in InjectOutcomes : cli' = afterInject(Fresh(cli), o)
  /\ UNCHANGED <<dash, env, clients, instance, calls, got>>

\* generateText settles: chat() steps 5 and 6 up to the await inside
\* extractMemories(), or the catch in the question callback
CliLlmSettles ==
  /\ cli.pc = "running" /\ ~cli.exited /\ cli.main = "llm"
  /\ \E o \in LlmOutcomes :
       IF o.state = "rejected"
       THEN /\ cli.llmFailures < MaxLlmFailures
            /\ cli' = prompt([Fresh(cli) EXCEPT !.turn.error = TRUE, !.llmFailures = @ + 1])
       ELSE LET c1 == [Fresh(cli) EXCEPT !.messages = Append(@, AssistantMessage(cli.turn.n)),
                                        !.turn.replied = TRUE]
                issued == extractProceeds(c1, FALSE)
                c2 == [c1 EXCEPT !.decision = Some([length |-> Len(c1.messages),
                                                    last |-> c1.lastExtractionCount,
                                                    issued |-> issued,
                                                    retry |-> c1.retry])]
            IN cli' = IF issued THEN [c2 EXCEPT !.main = "extract"]
                      ELSE prompt([c2 EXCEPT !.turn.returned = TRUE])
  /\ UNCHANGED <<dash, env, clients, instance, calls, got>>

\* the permem.extract of the end of a turn settles: the rest of
\* extractMemories(), `return text`, and the next prompt
CliExtractSettles ==
  /\ cli.pc = "running" /\ ~cli.exited /\ cli.main = "extract"
  /\ \E o \in ExtractOutcomes :
       cli' = prompt([afterExtract(cli, o) EXCEPT
                        !.lastResult = Some(o),
                        !.retry = ~Productive(o),
                        !.turn.extractFailed = (o.state = "rejected"),
                        !.turn.returned = TRUE])
  /\ UNCHANGED <<dash, env, clients, instance, calls, got>>

\* the end of the exit command, after `await extractMemories(true)`:
\* isClosing = true, rl.close() (whose close event the handler ignores, as
\* isClosing is set), process.exit(0)
exitCommandEnd(c) ==
  exit([c EXCEPT !.quits = Settle(@, "exit"), !.isClosing = TRUE, !.rlClosed = TRUE], "exit")

\* the user enters "exit": extractMemories(true) up to its await, or, when it
\* returns at once, to the end of the process
CliExit ==
  /\ CliWaiting
  /\ LET c1 == [Fresh(cli) EXCEPT !.quits = Append(@, Quit(cli, "exit"))]
     IN cli' = IF extractProceeds(cli, TRUE)
               THEN [c1 EXCEPT !.main = "exitExtract"]
               ELSE exitCommandEnd([c1 EXCEPT !.main = "stopped"])
  /\ UNCHANGED <<dash, env, clients, instance, calls, got>>

\* the permem.extract of the exit command settles
CliExitExtractSettles ==
  /\ cli.pc = "running" /\ ~cli.exited /\ cli.main = "exitExtract"
  /\ \E o \in ExtractOutcomes :
       cli' = exitCommandEnd([afterExtract(cli, o) EXCEPT !.lastResult = Some(o),
                                                         !.main = "stopped"])
  /\ UNCHANGED <<dash, env, clients, instance, calls, got>>

\* rl.on('close', ...): the handler up to its await, or, when
\* extractMemories(true) returns at once, to the end of the process
closeHandler(c) ==
  IF c.isClosing THEN c
  ELSE LET c1 == [c EXCEPT !.isClosing = TRUE, !.quits = Append(@, Quit(c, "close"))]
       IN IF extractProceeds(c, TRUE)
          THEN [c1 EXCEPT !.closeHandler = "extract"]
          ELSE exit([c1 EXCEPT !.quits = Settle(@, "close")], "close")

\* the input closes (Ctrl+C, Ctrl+D): readline emits close, once
CliClose ==
  /\ cli.pc = "running" /\ ~cli.exited /\ ~cli.rlClosed
  /\ cli' = closeHandler([Fresh(cli) EXCEPT !.rlClosed = TRUE])
  /\ UNCHANGED <<dash, env, clients, instance, calls, got>>

\* the permem.extract of the close handler settles
CliCloseExtractSettles ==
  /\ cli.pc = "running" /\ ~cli.exited /\ cli.closeHandler = "extract"
  /\ \E o \in ExtractOutcomes :
       cli' = exit([afterExtract(cli, o) EXCEPT !.lastResult = Some(o),
                                               !.closeHandler = "idle",
                                               !.quits = Settle(@, "close")], "close")
  /\ UNCHANGED <<dash, env, clients, instance, calls, got>>

----------------------------------------------------------------------------
(***************************************************************************)
(* The dashboard front end (frontend/lib/api.ts, app/dashboard/page.tsx)   *)
(*                                                                         *)
(* dash is a record: window (running in a browser), token (the             *)
(* localStorage item permem_token, optional), requests (the requests        *)
(* handed to fetch so far, each with the stored token at that time), auth  *)
(* (how many signup and login calls await their response), authCalls (how  *)
(* many were started), event (the API call the last step completed),       *)
(* page (the dashboard page: its state hooks, the navigations it pushed,   *)
(* the position of loadData and the fate of its three requests).           *)
(***************************************************************************)

MaxAuthCalls == 2

TOKEN1 == "t1"
TOKEN2 == "t2"
PROJECT1 == "p1"
USERNAME == "u1"
LOGIN == "/auth/login"
HOME == "/"

\* getToken()
getToken(d) == IF ~d.window THEN None ELSE d.token

\* setToken(token)
setToken(d, token) == IF ~d.window THEN d ELSE [d EXCEPT !.token = Some(token)]

\* clearToken()
clearToken(d) == IF ~d.window THEN d ELSE [d EXCEPT !.token = None]

\* isAuthenticated(): !!getToken()
isAuthenticated(d) == TruthyStr(getToken(d))

\* a request() that never sends the token
apiHeadersNoAuth(d) == [ContentType |-> "application/json", Authorization |-> None]

\* the headers request() builds
apiHeaders(d) ==
  [ContentType |-> "application/json",
   Authorization |-> IF TruthyStr(getToken(d))
                     THEN Some("Bearer " \o Val(getToken(d)))
                     ELSE None]

\* request() up to `await fetch(...)`: the request handed to fetch
apiRequest(d, op, method, path) ==
  [d EXCEPT !.requests = @ \cup {[op |-> op, method |-> method, path |-> path,
                                   headers |-> apiHeaders(d), stored |-> d.token]}]

\* what fetch settles to when the request fails: a transport error, a non-2xx
\* response with an unparsable body, with a body without error, with an error
\* message, or a 2xx response whose body does not parse
ApiFailures ==
  {[kind |-> "network error"],
   [kind |-> "response", status |-> 401, parsable |-> FALSE, body |-> [error |-> None]],
   [kind |-> "response", status |-> 500, parsable |-> TRUE, body |-> [error |-> None]],
   [kind |-> "response", status |-> 401, parsable |-> TRUE,
    body |-> [error |-> Some("Invalid credentials")]],
   [kind |-> "response", status |-> 200, parsable |-> FALSE, body |-> [error |-> None]]}

\* request() after `await fetch(...)`
apiSettles(r) ==
  IF r.kind = "network error" THEN Rejected("fetch failed")
  ELSE IF r.status \notin 200..299
       THEN LET error == IF r.parsable THEN r.body ELSE [error |-> Some("Unknown error")]
            IN Rejected(OrStr(error.error, "HTTP " \o ToString(r.status)))
       ELSE IF r.parsable THEN Fulfilled(r.body) ELSE Rejected("Unexpected token")

Ok(body) == [kind |-> "response", status |-> 200, parsable |-> TRUE, body |-> body]

\* the responses to signup and login: failures, or an AuthResponse
AuthResponses == ApiFailures \cup {Ok([token |-> t]) : t \in {TOKEN1, TOKEN2}}

\* the responses to /auth/me: failures, or a user with or without a project
MeResponses ==
  ApiFailures \cup {Ok([user |-> USERNAME, project |-> pr]) : pr \in {None, Some(PROJECT1)}}

\* the responses to the stats and memories requests
StatsResponses == ApiFailures \cup {Ok([memoryCount |-> 1, maxMemories |-> 100])}
MemoriesResponses == ApiFailures \cup {Ok([memories |-> <<>>])}

NoEvent == [kind |-> "none", ok |-> TRUE, token |-> None]
Quiet(d) == [d EXCEPT !.event = NoEvent]

PageStart ==
  [mounted |-> FALSE, authenticated |-> None, loading |-> TRUE, nav |-> <<>>,
   loadData |-> "idle", me |-> "none", stats |-> "none", memories |-> "none",
   user |-> None, project |-> None, statsSet |-> FALSE, memoriesSet |-> FALSE]

\* the browser on arrival: a token may be stored from an earlier visit
DashStart(token) ==
  [pc |-> "running", window |-> TRUE, token |-> token, requests |-> {},
   auth |-> [signup |-> 0, login |-> 0], authCalls |-> 0, event |-> NoEvent, page |-> PageStart]

DashRunning == dash.pc = "running"

\* signup(name, email, password) up to its await
DashSignup ==
  /\ DashRunning /\ dash.authCalls < MaxAuthCalls
  /\ dash' = [apiRequest(Quiet(dash), "signup", "POST", "/auth/signup")
                EXCEPT !.auth.signup = @ + 1, !.authCalls = @ + 1]
  /\ UNCHANGED <<cli, env, clients, instance, calls, got>>

\* login(email, password) up to its await
DashLogin ==
  /\ DashRunning /\ dash.authCalls < MaxAuthCalls
  /\ dash' = [apiRequest(Quiet(dash), "login", "POST", "/auth/login")
                EXCEPT !.auth.login = @ + 1, !.authCalls = @ + 1]
  /\ UNCHANGED <<cli, env, clients, instance, calls, got>>

\* signup and login after `await request(...)`: setToken(response.token)
afterAuth(d, op, o) ==
  IF o.state = "fulfilled"
  THEN [setToken(d, o.value.token)
          EXCEPT !.event = [kind |-> op, ok |-> TRUE, token |-> Some(o.value.token)]]
  ELSE [d EXCEPT !.event = [kind |-> op, ok |-> FALSE, token |-> None]]

\* the request of a signup or login settles
DashAuthSettles ==
  /\ DashRunning
  /\ \E op \in {"signup", "login"}, r \in AuthResponses :
       /\ dash.auth[op] > 0
       /\ dash' = afterAuth([dash EXCEPT !.auth[op] = @ - 1], op, apiSettles(r))
  /\ UNCHANGED <<cli, env, clients, instance, calls, got>>

\* logout()
logout(d) == [clearToken(d) EXCEPT !.event = [kind |-> "logout", ok |-> TRUE, token |-> None]]

\* logout() called outside the dashboard page (another tab of the site)
DashLogout ==
  /\ DashRunning /\ dash.token # None
  /\ dash' = logout(dash)
  /\ UNCHANGED <<cli, env, clients, instance, calls, got>>

\* handleLogout, behind the button the loaded page shows
DashHandleLogout ==
  /\ DashRunning
  /\ dash.page.mounted /\ ~dash.page.loading /\ dash.page.nav = <<>>
  /\ dash' = [logout(dash) EXCEPT !.page.nav = Append(@, HOME)]
  /\ UNCHANGED <<cli, env, clients, instance, calls, got>>

\* the effect of the page on mount: to the login page without a token,
\* otherwise loadData() up to `await getMe()`
DashMount ==
  /\ DashRunning /\ ~dash.page.mounted
  /\ LET d == [Quiet(dash) EXCEPT !.page.mounted = TRUE,
                                  !.page.authenticated = Some(isAuthenticated(dash))]
     IN dash' = IF ~isAuthenticated(dash)
                THEN [d EXCEPT !.page.nav = Append(@, LOGIN)]
                ELSE [apiRequest(d, "getMe", "GET", "/auth/me")
                        EXCEPT !.page.me = "pending", !.page.loadData = "me"]
  /\ UNCHANGED <<cli, env, clients, instance, calls, got>>

\* a loadData whose failure path leaves the page loading
loadDataFailsNoFinally(pg) ==
  [pg EXCEPT !.nav = Append(@, LOGIN), !.loadData = "done"]

\* loadData's catch and finally
loadDataFails(pg) ==
  [pg EXCEPT !.nav = Append(@, LOGIN), !.loading = FALSE, !.loadData = "done"]

\* loadData's finally after a try block that completed
loadDataEnds(pg) == [pg EXCEPT !.loading = FALSE, !.loadData = "done"]

\* loadData after `await getMe()`, up to `await Promise.all(...)` or its end
afterMe(d, o) ==
  IF o.state = "rejected"
  THEN [d EXCEPT !.page = loadDataFails([@ EXCEPT !.me = "failed"])]
  ELSE LET d1 == [d EXCEPT !.page.me = "ok", !.page.user = Some(o.value.user),
                           !.page.project = o.value.project]
       IN IF o.value.project # None
          THEN LET id == Val(o.value.project)
                   d2 == apiRequest(d1, "getProjectStats", "GET",
                                    "/projects/" \o id \o "/stats")
                   d3 == apiRequest(d2, "getProjectMemories", "GET",
                                    "/projects/" \o id \o "/memories?limit=50")
               IN [d3 EXCEPT !.page.stats = "pending", !.page.memories = "pending",
                             !.page.loadData = "both"]
          ELSE [d1 EXCEPT !.page = loadDataEnds(@)]

\* the request of getMe() settles
DashMeSettles ==
  /\ DashRunning /\ dash.page.me = "pending"
  /\ \E r \in MeResponses : dash' = afterMe(Quiet(dash), apiSettles(r))
  /\ UNCHANGED <<cli, env, clients, instance, calls, got>>

\* one of the two requests under Promise.all settles: the first rejection
\* rejects the whole, the second fulfilment fulfils it; a request that
\* settles after the rejection changes nothing on the page
afterData(pg, which, other, o) ==
  LET p1 == [pg EXCEPT ![which] = IF o.state = "fulfilled" THEN "ok" ELSE "failed"]
  IN IF pg.loadData # "both" THEN p1
     ELSE IF o.state = "rejected" THEN loadDataFails(p1)
     ELSE IF p1[other] = "ok"
          THEN loadDataEnds([p1 EXCEPT !.statsSet = TRUE, !.memoriesSet = TRUE])
          ELSE p1

\* the request of getProjectStats settles
DashStatsSettles ==
  /\ DashRunning /\ dash.page.stats = "pending"
  /\ \E r \in StatsResponses :
       dash' = [Quiet(dash) EXCEPT !.page = afterData(@, "stats", "memories", apiSettles(r))]
  /\ UNCHANGED <<cli, env, clients, instance, calls, got>>

\* the request of getProjectMemories settles
DashMemoriesSettles ==
  /\ DashRunning /\ dash.page.memories = "pending"
  /\ \E r \in MemoriesResponses :
       dash' = [Quiet(dash) EXCEPT !.page = afterData(@, "memories", "stats", apiSettles(r))]
  /\ UNCHANGED <<cli, env, clients, instance, calls, got>>

----------------------------------------------------------------------------
(* Specifications *)

\* Spec: the singleton layer with clients and invocations interleaved
Init ==
  /\ env \in [PERMEM_URL : {None, Some(ENVURL)}, PERMEM_API_KEY : {None, Some(ENVKEY)}]
  /\ clients = <<>>
  /\ instance = 0
  /\ calls = <<>>
  /\ got = None
  /\ cli = NotRunning
  /\ dash = NotRunning

Next ==
  \/ configure(SomeConfigs)
  \/ SingletonCall(FewInvocations)
  \/ FetchRejects(OneError)
  \/ FetchResolves(FewResponses)
  \/ Return

Spec == Init /\ [][Next]_vars

\* SpecHttp: one constructed client and the lazy singleton, every outcome of the HTTP exchange
InitHttp ==
  /\ env = [PERMEM_URL |-> Some(ENVURL), PERMEM_API_KEY |-> Some(ENVKEY)]
  /\ clients = <<NewClient([EmptyConfig EXCEPT !.url = Some(URL1)], "new")>>
  /\ instance = 0
  /\ calls = <<>>
  /\ got = None
  /\ cli = NotRunning
  /\ dash = NotRunning

NextHttp ==
  \/ ClientCall(PlainInvocations)
  \/ SingletonCall(PlainInvocations)
  \/ FetchRejects(TransportErrors)
  \/ FetchResolves(AllResponses)
  \/ Return

SpecHttp == InitHttp /\ [][NextHttp]_vars

\* SpecConfig: construction and getConfig() over every configuration
InitConfig ==
  /\ env = [PERMEM_URL |-> None, PERMEM_API_KEY |-> None]
  /\ clients = <<>>
  /\ instance = 0
  /\ calls = <<>>
  /\ got = None
  /\ cli = NotRunning
  /\ dash = NotRunning

NextConfig ==
  \/ (clients = <<>> /\ NewPermem(AllConfigs))
  \/ GetConfig

SpecConfig == InitConfig /\ [][NextConfig]_vars

\* SpecOps: one client of any configuration, one invocation at a time with
\* every combination of its options, every shape of the endpoint's answer
NextOps ==
  \/ (clients = <<>> /\ NewPermem(OpsConfigs))
  \/ (calls = <<>> /\ ClientCall(RichInvocations))
  \/ FetchRejects(OneError)
  \/ FetchResolves(RichResponses)
  \/ Return

SpecOps == InitConfig /\ [][NextOps]_vars

\* SpecTokens: extract with contextLength omitted, over message lists
NextTokens ==
  \/ (calls = <<>> /\ ClientCall(TokenInvocations))
  \/ FetchResolves(FewResponses)
  \/ Return

SpecTokens == InitHttp /\ [][NextTokens]_vars

\* SpecFrame: clients constructed, configured, read with getConfig(), the
\* returned object written to, and used for requests, in any order
FrameInvocations ==
  {inv \in PlainInvocations : inv.op \in {"inject", "extract"} /\ inv.options.userId = USER1}

NextFrame ==
  \/ NewPermem(SomeConfigs)
  \/ configure(SomeConfigs)
  \/ (calls = <<>> /\ ClientCall(FrameInvocations))
  \/ (calls = <<>> /\ SingletonCall(FrameInvocations))
  \/ FetchRejects(OneError)
  \/ FetchResolves(FewResponses)
  \/ Return
  \/ GetConfig
  \/ WriteReturned

SpecFrame == InitConfig /\ [][NextFrame]_vars

\* SpecEnv: the singleton under every environment (each variable unset, empty
\* or set), never configured or configured with each field omitted or given
EnvConfigs ==
  [url : {None, Some(URL1)}, apiKey : {None, Some(KEY1)},
   maxContextLength : {None}, extractThreshold : {None}]

InitEnv ==
  /\ env \in [PERMEM_URL : {None, Some(""), Some(ENVURL)},
               PERMEM_API_KEY : {None, Some(""), Some(ENVKEY)}]
  /\ clients = <<>>
  /\ instance = 0
  /\ calls = <<>>
  /\ got = None
  /\ cli = NotRunning
  /\ dash = NotRunning

NextEnv ==
  \/ configure(EnvConfigs)
  \/ (calls = <<>> /\ SingletonCall({[op |-> "health"]}))
  \/ FetchResolves(FewResponses)
  \/ Return

SpecEnv == InitEnv /\ [][NextEnv]_vars

\* SpecCli: the example CLI chat, with EXTRACT_MESSAGE_THRESHOLD at its
\* default and at a smaller value
Thresholds == {3, 10}

InitCli ==
  /\ env = [PERMEM_URL |-> None, PERMEM_API_KEY |-> None]
  /\ clients = <<>>
  /\ instance = 0
  /\ calls = <<>>
  /\ got = None
  /\ cli \in {CliStart(t) : t \in Thresholds}
  /\ dash = NotRunning

NextCli ==
  \/ CliBlank
  \/ CliClear
  \/ CliChat
  \/ CliInjectSettles
  \/ CliLlmSettles
  \/ CliExtractSettles
  \/ CliExit
  \/ CliExitExtractSettles
  \/ CliClose
  \/ CliCloseExtractSettles

SpecCli == InitCli /\ [][NextCli]_vars

\* SpecDash: the dashboard front end in a browser, with or without a token
\* stored from an earlier visit
InitDash ==
  /\ env = [PERMEM_URL |-> None, PERMEM_API_KEY |-> None]
  /\ clients = <<>>
  /\ instance = 0
  /\ calls = <<>>
  /\ got = None
  /\ cli = NotRunning
  /\ dash \in {DashStart(t) : t \in {None, Some(TOKEN1)}}

NextDash ==
  \/ DashSignup
  \/ DashLogin
  \/ DashAuthSettles
  \/ DashLogout
  \/ DashHandleLogout
  \/ DashMount
  \/ DashMeSettles
  \/ DashStatsSettles
  \/ DashMemoriesSettles

SpecDash == InitDash /\ [][NextDash]_vars

\* SpecDashLive: the same, where every request the page awaits settles
SpecDashLive ==
  /\ InitDash /\ [][NextDash]_vars
  /\ WF_vars(DashMeSettles) /\ WF_vars(DashStatsSettles) /\ WF_vars(DashMemoriesSettles)

----------------------------------------------------------------------------
(* What a request carries, as the server reads it *)

\* the inverse of the urlencoded serializer
RECURSIVE UrlDecode(_)
UrlDecode(text) ==
  IF text = <<>> THEN <<>>
  ELSE IF Head(text) = "+" THEN <<" ">> \o UrlDecode(Tail(text))
  ELSE IF Head(text) = "%" /\ Len(text) >= 3
       THEN LET hex == SubSeq(text, 2, 3)
                c == CASE hex = <<"2", "6">> -> "&"
                       [] hex = <<"3", "D">> -> "="
                       [] hex = <<"2", "B">> -> "+"
                       [] hex = <<"2", "5">> -> "%"
                       [] hex = <<"3", "F">> -> "?"
                       [] OTHER -> "#"
            IN <<c>> \o UrlDecode(SubSeq(text, 4, Len(text)))
  ELSE <<Head(text)>> \o UrlDecode(Tail(text))

\* the position of the first sep in text, 0 when there is none
FirstIndex(text, sep) ==
  IF \E i \in 1..Len(text) : text[i] = sep
  THEN CHOOSE i \in 1..Len(text) : text[i] = sep /\ \A j \in 1..(i - 1) : text[j] # sep
  ELSE 0

RECURSIVE Split(_, _)
Split(text, sep) ==
  LET i == FirstIndex(text, sep)
  IN IF i = 0 THEN <<text>>
     ELSE <<SubSeq(text, 1, i - 1)>> \o Split(SubSeq(text, i + 1, Len(text)), sep)

\* the value of the query parameter `name` in a query string, if it has one
QueryGet(qs, name) ==
  LET pairs == Split(qs, "&")
      Name(p) == LET i == FirstIndex(p, "=")
                 IN UrlDecode(IF i = 0 THEN p ELSE SubSeq(p, 1, i - 1))
      Value(p) == LET i == FirstIndex(p, "=")
                  IN UrlDecode(IF i = 0 THEN <<>> ELSE SubSeq(p, i + 1, Len(p)))
      hits == {k \in 1..Len(pairs) : Name(pairs[k]) = name}
  IN IF hits = {} THEN None
     ELSE Some(Value(pairs[CHOOSE k \in hits : \A m \in hits : k <= m]))

\* the user id a request carries: in the JSON body of a POST, in the query of a GET
CarriedUserId(req) ==
  IF req.body # None
  THEN (IF "userId" \in DOMAIN Val(req.body) THEN Some(Val(req.body).userId) ELSE None)
  ELSE IF Len(req.url) >= 3 THEN QueryGet(req.url[3], <<"u", "s", "e", "r", "I", "d">>)
  ELSE None

CallSet == {calls[i] : i \in 1..Len(calls)}
DataOps == {"memorize", "recall", "inject", "extract"}
Settled(c) == c.pc = "done"

----------------------------------------------------------------------------
(* Claims *)

\* the response was successful and its body is an object whose status is "ok"
HealthyResponse(c) ==
  /\ c.response # None
  /\ Val(c.response).status \in 200..299
  /\ Val(c.response).body # None
  /\ Val(Val(c.response).body).t = "object"
  /\ Get(Val(Val(c.response).body), "status") = Some("ok")

\* C1: health() never rejects: whatever the HTTP exchange did (fetch threw, a
\* non-2xx response, a 2xx response with an unparsable body or with a status
\* other than "ok"), it resolves to a boolean, and that boolean is true exactly
\* when the response was successful and its status field is "ok".
C1_HealthNeverRejects ==
  \A c \in CallSet :
    (c.inv.op = "health" /\ Settled(c)) =>
      /\ Val(c.outcome).state = "fulfilled"
      /\ Val(c.outcome).value \in BOOLEAN
      /\ Val(c.outcome).value = HealthyResponse(c)

\* C1 witness: a health() whose fetch threw has resolved to false
C1_Witness ==
  \E c \in CallSet :
    /\ c.inv.op = "health" /\ Settled(c) /\ c.thrown # None
    /\ c.outcome = Some(Fulfilled(FALSE))

\* the body of a non-2xx response parsed and carries a non-empty error field
HasErrorField(c) ==
  /\ Val(c.response).body # None
  /\ Val(Val(c.response).body).t = "object"
  /\ TruthyStr(Get(Val(Val(c.response).body), "error"))

ErrorField(c) == Val(Get(Val(Val(c.response).body), "error"))

NonOk(c) == c.response # None /\ Val(c.response).status \notin 200..299

C4_TransportFailurePropagates ==
  \A c \in CallSet :
    (Settled(c) /\ c.thrown # None) =>
      /\ c.inv.op \in DataOps => c.outcome = Some(Rejected(Val(c.thrown)))
      /\ c.inv.op = "health" => c.outcome = Some(Fulfilled(FALSE))

\* C4 witness: a memorize whose fetch threw has rejected with the thrown error
C4_Witness ==
  \E c \in CallSet :
    /\ c.inv.op = "memorize" /\ Settled(c) /\ c.thrown # None
    /\ Val(c.outcome).state = "rejected"
    /\ Val(c.outcome).reason.name # "PermemError"

\* the clients configure() built among the first n constructed
ConfiguredIn(cl, n) == {j \in 1..n : cl[j].by = "configure"}
Configured(n) == ConfiguredIn(clients, n)
\* the clients getInstance() built among the first n constructed
LazyIn(cl, n) == {j \in 1..n : cl[j].by = "getInstance"}
Lazy(n) == LazyIn(clients, n)
Last(S) == CHOOSE j \in S : \A k \in S : k <= j

\* C5: after configure(c) every singleton convenience call is sent by the
\* client built from c until the next configure, whether or not a singleton
\* existed before; after several configure calls the last one wins.
C5_ConfigureWins ==
  \A c \in CallSet :
    (c.singleton /\ Configured(c.epoch) # {}) =>
      LET j == Last(Configured(c.epoch))
      IN /\ c.client = j
         /\ c.requests[1] = opRequest(Constructor(clients[j].args), c.inv)

\* C5 witness: the singleton was created lazily, then configure({url: URL1, ...})
\* replaced it, and a convenience call went to URL1
C5_Witness ==
  \E c \in CallSet :
    /\ c.singleton /\ c.client = 2
    /\ clients[1].by = "getInstance" /\ clients[2].by = "configure"
    /\ clients[2].args.url = Some(URL1)
    /\ c.requests[1].url[1] = URL1

\* C6 as stated: getConfig() returns every given field unchanged (0, a negative
\* number and the empty string included) and the documented default for every
\* omitted field.
C6_RoundTrip ==
  got # None =>
    LET a == clients[1].args
        r == Val(got)
    IN /\ r.url = (IF a.url = None THEN "http://localhost:3333" ELSE Val(a.url))
       /\ r.apiKey = a.apiKey
       /\ r.maxContextLength =
            (IF a.maxContextLength = None THEN 8000 ELSE Val(a.maxContextLength))
       /\ r.extractThreshold =
            (IF a.extractThreshold = None THEN 70 ELSE Val(a.extractThreshold))

\* C7 as stated: no request of memorize, recall, inject or extract carries an
\* empty or missing user id: a call whose options.userId is empty sends nothing.
C7_NoEmptyUserId ==
  \A c \in CallSet :
    c.inv.op \in DataOps =>
      /\ c.inv.options.userId = EmptyText => c.requests = <<>>
      /\ \A k \in 1..Len(c.requests) :
           CarriedUserId(c.requests[k]) \notin {None, Some(EmptyText)}

EnvResolved ==
  [url |-> IF env.PERMEM_URL = None THEN "http://localhost:3333" ELSE Val(env.PERMEM_URL),
   apiKey |-> env.PERMEM_API_KEY,
   maxContextLength |-> 8000,
   extractThreshold |-> 70]

C9_Inv ==
  /\ Cardinality(Lazy(Len(clients))) <= 1
  /\ \A j \in Lazy(Len(clients)) :
       clients[j].config = EnvResolved /\ Configured(j) = {}
  /\ instance = 0 => Lazy(Len(clients)) \cup Configured(Len(clients)) = {}
  /\ \A c \in CallSet :
       (c.singleton /\ Configured(c.epoch) = {}) =>
         c.client \in Lazy(Len(clients))

\* a client is constructed from the environment only by the step that starts a
\* convenience call while there is no singleton
C9_LazyStep ==
  Cardinality(LazyIn(clients', Len(clients'))) > Cardinality(Lazy(Len(clients))) =>
    /\ instance = 0
    /\ Len(calls') = Len(calls) + 1
    /\ calls'[Len(calls')].singleton
    /\ calls'[Len(calls')].client = instance'

\* C9: the singleton is created lazily and at most once: no client exists
\* before the first convenience call; the first convenience call with no
\* configure before it constructs one client from the environment's url and
\* api key; all further convenience calls without a configure use that client.
C9_LazySingleton == [](C9_Inv) /\ [][C9_LazyStep]_vars

\* C9 witness: with PERMEM_URL set and no configure, a convenience call is in
\* flight to that url on the one client built from the environment
C9_Witness ==
  \E c \in CallSet :
    /\ c.singleton /\ c.pc = "fetch" /\ Len(clients) = 1 /\ instance = 1
    /\ clients[1].by = "getInstance"
    /\ env.PERMEM_URL = Some(ENVURL) /\ c.requests[1].url[1] = ENVURL

\* the singleton installed when n clients had been constructed
Installed(n) ==
  IF Configured(n) # {} THEN Last(Configured(n)) ELSE Last(Lazy(n))

C10_Inv ==
  /\ \A c \in CallSet :
       c.singleton =>
         LET cfg == clients[c.client].config
             r == c.requests[1]
         IN /\ c.client = Installed(c.epoch)
            /\ r.url[1] = cfg.url
            /\ ("x-api-key" \in DOMAIN r.headers) = TruthyStr(cfg.apiKey)
            /\ "x-api-key" \in DOMAIN r.headers => r.headers["x-api-key"] = Val(cfg.apiKey)
            /\ c.inv.op \in {"inject", "extract"} =>
                 Val(r.body).maxContextLength = cfg.maxContextLength
  /\ Configured(Len(clients)) # {} => instance = Last(Configured(Len(clients)))

\* a configure() leaves every invocation as it is, and an invocation in flight
\* changes only by settling, with its client and its request kept
C10_Step ==
  /\ ConfiguredIn(clients', Len(clients')) # Configured(Len(clients)) => calls' = calls
  /\ \A i \in 1..Len(calls) :
       calls[i].pc = "fetch" =>
         \E j \in 1..Len(calls') :
           /\ calls'[j].inv = calls[i].inv
           /\ calls'[j].client = calls[i].client
           /\ calls'[j].requests = calls[i].requests
           /\ clients'[calls'[j].client] = clients[calls[i].client]

\* C10: however configure calls interleave with convenience calls awaiting
\* their response, each call's request is built from one configuration, the
\* one installed when the call started (url, api key and maxContextLength
\* together); a later configure neither redirects nor aborts a call in flight;
\* and the singleton is the client of the last configure.
C10_ConfigureRace == [](C10_Inv) /\ [][C10_Step]_vars

\* C10 witness: an inject sent to URL1 with URL1's key and maxContextLength is
\* still in flight after configure() installed the URL2 client
C10_Witness ==
  \E c \in CallSet :
    /\ c.singleton /\ c.pc = "fetch" /\ c.inv.op = "inject"
    /\ c.client = 1 /\ instance = 2
    /\ clients[1].config.url = URL1 /\ clients[2].config.url = URL2
    /\ c.requests[1].url[1] = URL1
    /\ c.requests[1].headers["x-api-key"] = KEY1
    /\ Val(c.requests[1].body).maxContextLength = 4000

----------------------------------------------------------------------------
(* Claims on the shape of each operation's request and result *)

\* the one request of an invocation, and its JSON body
Req(c) == c.requests[1]
BodyOf(c) == Val(Req(c).body)

\* the body has field k exactly when the caller gave the optional value o,
\* and then with that value
CarriesOptional(body, k, o) ==
  /\ (k \in DOMAIN body) = (o # None)
  /\ o # None => body[k] = Val(o)

\* C11: memorize(C, {userId: U, ...}) issues exactly one POST to
\* <resolved url>/v1/memories whose body has content C, userId U, the caller's
\* conversationId (left out when the caller gave none) and async equal to the
\* caller's flag, false when the flag is omitted; the body has no other field.
C11_MemorizeRequest ==
  \A c \in CallSet :
    c.inv.op = "memorize" =>
      /\ Len(c.requests) = 1
      /\ Req(c).method = "POST"
      /\ Req(c).url = <<getConfig(clients[c.client]).url, "/v1/memories">>
      /\ Req(c).body # None
      /\ DOMAIN BodyOf(c) \subseteq {"content", "userId", "conversationId", "async"}
      /\ BodyOf(c).content = c.inv.content
      /\ BodyOf(c).userId = c.inv.options.userId
      /\ CarriesOptional(BodyOf(c), "conversationId", c.inv.options.conversationId)
      /\ "async" \in DOMAIN BodyOf(c)
      /\ BodyOf(c).async = (c.inv.options.async = Some(TRUE))

\* C11 witness: a memorize for conversation "c1" with the async flag omitted
\* is on the wire to the default url with async false
C11_Witness ==
  \E c \in CallSet :
    /\ c.inv.op = "memorize" /\ c.pc = "fetch"
    /\ c.inv.options.async = None /\ c.inv.options.conversationId = Some(CONV1)
    /\ Req(c).url = <<"http://localhost:3333", "/v1/memories">>
    /\ BodyOf(c).async = FALSE /\ BodyOf(c).conversationId = CONV1

\* the invocation got a 2xx response whose body parsed
Succeeded(c) ==
  /\ Settled(c) /\ c.response # None
  /\ Val(c.response).status \in 200..299
  /\ Val(c.response).body # None

ResponseBody(c) == Val(Val(c.response).body)

\* a successful memorize response: an object that carries a results list
MemorizeAnswered(c) ==
  /\ c.inv.op = "memorize" /\ Succeeded(c)
  /\ ResponseBody(c).t = "object"
  /\ "results" \in DOMAIN ResponseBody(c).f

\* the positions of the entries of a results list that carry a memory
\* payload, and the k-th of them in list order
WithMemory(results) == {i \in 1..Len(results) : results[i].memory # None}
Nth(S, k) == CHOOSE i \in S : Cardinality({j \in S : j <= i}) = k

\* C12: for every successful memorize response the result has stored equal to
\* the response's stored, count equal to stored_count (0 when absent),
\* duplicates equal to duplicates (0 when absent), and memories equal to the
\* response's results restricted to the entries that carry a memory payload,
\* in their original order, each mapped to {id, summary, type} of its payload
\* plus that entry's action; entries with a null memory never appear.
C12_MemorizeResult ==
  \A c \in CallSet :
    MemorizeAnswered(c) =>
      LET body == ResponseBody(c).f
          results == body.results
          kept == WithMemory(results)
      IN /\ Val(c.outcome).state = "fulfilled"
         /\ LET result == Val(c.outcome).value
            IN /\ result.stored = Get(ResponseBody(c), "stored")
               /\ result.count = (IF "stored_count" \in DOMAIN body THEN body.stored_count ELSE 0)
               /\ result.duplicates = (IF "duplicates" \in DOMAIN body THEN body.duplicates ELSE 0)
               /\ Len(result.memories) = Cardinality(kept)
               /\ \A k \in 1..Len(result.memories) :
                    LET r == results[Nth(kept, k)]
                    IN result.memories[k] =
                         [id |-> Val(r.memory).id, summary |-> Val(r.memory).summary,
                          type |-> Val(r.memory).type, action |-> r.action]

\* C12 witness: a response without stored_count whose results are an UPDATE of
\* mem-2, a DUPLICATE without memory and a NEW mem-1 gave count 0 and the two
\* memories in that order
C12_Witness ==
  \E c \in CallSet :
    /\ MemorizeAnswered(c)
    /\ "stored_count" \notin DOMAIN ResponseBody(c).f
    /\ Len(ResponseBody(c).f.results) = 3
    /\ Val(c.outcome).state = "fulfilled"
    /\ Val(c.outcome).value.count = 0
    /\ Val(c.outcome).value.memories =
         <<[id |-> "mem-2", summary |-> "s2", type |-> "fact", action |-> "UPDATE"],
           [id |-> "mem-1", summary |-> "s1", type |-> "core", action |-> "NEW"]>>

\* a successful memorize response that reports nothing stored: stored is
\* false, stored_count is 0 or absent, no entry of results carries a memory
NothingStored(c) ==
  /\ MemorizeAnswered(c)
  /\ Get(ResponseBody(c), "stored") = Some(FALSE)
  /\ Get(ResponseBody(c), "stored_count") \in {None, Some(0)}
  /\ WithMemory(ResponseBody(c).f.results) = {}

\* C13: a successful (2xx) memorize response that reports stored:false with
\* zero stored memories is not an error: memorize resolves, without throwing,
\* to a result with stored false, count 0 and an empty memories list.
C13_NothingStoredResolves ==
  \A c \in CallSet :
    NothingStored(c) =>
      /\ Val(c.outcome).state = "fulfilled"
      /\ Val(c.outcome).value.stored = Some(FALSE)
      /\ Val(c.outcome).value.count = 0
      /\ Val(c.outcome).value.memories = <<>>

\* C13 witness: a 200 with stored false, stored_count 0 and one DUPLICATE
\* entry without memory has resolved
C13_Witness ==
  \E c \in CallSet :
    /\ NothingStored(c)
    /\ Val(c.response).status = 200
    /\ Get(ResponseBody(c), "stored_count") = Some(0)
    /\ Len(ResponseBody(c).f.results) = 1
    /\ Val(c.outcome).state = "fulfilled"

\* the query string of a GET request
QueryOf(c) == Req(c).url[3]

\* the query string has parameter `name` exactly when the caller gave the
\* optional text o, and then with that text
QueryCarriesOptional(qs, name, o) == QueryGet(qs, name) = o

\* C14 as stated: recall issues one GET to /v1/memories/search whose query
\* string always contains q=Q (URL-encoded) and userId, and contains limit,
\* mode and conversationId exactly when the caller supplied them, each with
\* the caller's value; the result's memories list is the response's memories
\* list unchanged.
C14_RecallRequest ==
  \A c \in CallSet :
    c.inv.op = "recall" =>
      /\ Len(c.requests) = 1
      /\ Req(c).method = "GET"
      /\ Len(Req(c).url) = 3
      /\ Req(c).url[1] = getConfig(clients[c.client]).url
      /\ Req(c).url[2] = "/v1/memories/search?"
      /\ QueryGet(QueryOf(c), <<"q">>) = Some(c.inv.query)
      /\ QueryGet(QueryOf(c), <<"u", "s", "e", "r", "I", "d">>) = Some(c.inv.options.userId)
      /\ QueryCarriesOptional(QueryOf(c), <<"l", "i", "m", "i", "t">>,
                              IF c.inv.options.limit = None THEN None
                              ELSE Some(NumToText(Val(c.inv.options.limit))))
      /\ QueryCarriesOptional(QueryOf(c), <<"m", "o", "d", "e">>, c.inv.options.mode)
      /\ QueryCarriesOptional(QueryOf(c),
                              <<"c", "o", "n", "v", "e", "r", "s", "a", "t", "i", "o", "n", "I", "d">>,
                              c.inv.options.conversationId)
      /\ (Succeeded(c) /\ ResponseBody(c).t = "object") =>
           /\ Val(c.outcome).state = "fulfilled"
           /\ Val(c.outcome).value.memories = Get(ResponseBody(c), "memories")

\* C15: inject issues one POST to /v1/auto/inbound whose body's contextLength
\* equals the caller-supplied contextLength, or 0 when the caller omits it,
\* and whose maxContextLength equals the client's resolved maxContextLength
\* (8000 when the client was built without one).
C15_InjectRequest ==
  \A c \in CallSet :
    c.inv.op = "inject" =>
      /\ Len(c.requests) = 1
      /\ Req(c).method = "POST"
      /\ Req(c).url = <<getConfig(clients[c.client]).url, "/v1/auto/inbound">>
      /\ Req(c).body # None
      /\ BodyOf(c).message = c.inv.message
      /\ BodyOf(c).contextLength =
           (IF c.inv.options.contextLength = None THEN 0
            ELSE Val(c.inv.options.contextLength))
      /\ BodyOf(c).maxContextLength = getConfig(clients[c.client]).maxContextLength
      /\ clients[c.client].args.maxContextLength = None =>
           BodyOf(c).maxContextLength = 8000

\* C15 witness: an inject with contextLength 100 on the client configured with
\* maxContextLength 4000 is on the wire with both values
C15_Witness ==
  \E c \in CallSet :
    /\ c.inv.op = "inject" /\ c.pc = "fetch"
    /\ c.inv.options.contextLength = Some(100)
    /\ clients[c.client].args.maxContextLength = Some(4000)
    /\ BodyOf(c).contextLength = 100 /\ BodyOf(c).maxContextLength = 4000

\* C16 as stated: in the extract request body contextLength is the
\* caller-supplied contextLength whenever the caller supplied one (whatever its
\* value, 0 included) and the token estimate only when the caller omitted it;
\* extractThreshold is the per-call extractThreshold whenever supplied (0
\* included) and the client's resolved extractThreshold only when omitted;
\* async is the caller's flag, false when omitted; maxContextLength is the
\* client's resolved value.
C16_ExtractRequest ==
  \A c \in CallSet :
    c.inv.op = "extract" =>
      /\ Len(c.requests) = 1
      /\ Req(c).method = "POST"
      /\ Req(c).url = <<getConfig(clients[c.client]).url, "/v1/auto/outbound">>
      /\ BodyOf(c).messages = c.inv.messages
      /\ BodyOf(c).contextLength =
           (IF c.inv.options.contextLength = None THEN estimateTokens(c.inv.messages)
            ELSE Val(c.inv.options.contextLength))
      /\ BodyOf(c).extractThreshold =
           (IF c.inv.options.extractThreshold = None
            THEN getConfig(clients[c.client]).extractThreshold
            ELSE Val(c.inv.options.extractThreshold))
      /\ BodyOf(c).async = (c.inv.options.async = Some(TRUE))
      /\ BodyOf(c).maxContextLength = getConfig(clients[c.client]).maxContextLength

\* the total length of the contents of a message list
RECURSIVE TotalLength(_)
TotalLength(messages) ==
  IF messages = <<>> THEN 0 ELSE Len(Head(messages).content) + TotalLength(Tail(messages))

\* the length of n contents of total length L joined by single spaces
JoinedLength(messages) ==
  IF messages = <<>> THEN 0 ELSE TotalLength(messages) + Len(messages) - 1

\* C17: the default context length that extract computes for a list of n
\* messages whose contents have total length L is ceil(len/4), where len is
\* the length of the contents joined by single spaces: 0 for an empty list and
\* ceil((L + n - 1)/4) for n >= 1; it is a non-negative integer, it is 0 only
\* when the joined text is empty, and it never decreases when a message is
\* appended.
C17_EstimateTokens ==
  \A c \in CallSet :
    (c.inv.op = "extract" /\ c.inv.options.contextLength = None) =>
      LET messages == c.inv.messages
          len == JoinedLength(messages)
          sent == BodyOf(c).contextLength
      IN /\ Len(JoinContents(messages)) = len
         /\ sent \in Nat
         /\ 4 * sent >= len /\ 4 * sent < len + 4
         /\ messages = <<>> => sent = 0
         /\ sent = 0 <=> JoinContents(messages) = <<>>
         /\ \A m \in TokenContents :
              estimateTokens(Append(messages, [role |-> "user", content |-> m])) >= sent

\* C17 witness: two messages of 5 and 4 characters, joined to 10 characters,
\* were sent with contextLength 3
C17_Witness ==
  \E c \in CallSet :
    /\ c.inv.op = "extract" /\ c.inv.options.contextLength = None
    /\ Len(c.inv.messages) = 2
    /\ Len(c.inv.messages[1].content) = 5 /\ Len(c.inv.messages[2].content) = 4
    /\ BodyOf(c).contextLength = 3

\* the client's resolved configuration has an API key: one was given and it
\* is not the empty string
HasApiKey(client) ==
  getConfig(client).apiKey # None /\ Val(getConfig(client).apiKey) # ""

\* C18: every request sent by any of the five operations carries the header
\* Content-Type: application/json, and carries the header x-api-key, with
\* exactly the configured key as its value, if and only if the client's
\* resolved configuration has an API key (an empty string is no key); a client
\* built without an API key never sends x-api-key; no other header is sent.
C18_Headers ==
  \A c \in CallSet :
    \A k \in 1..Len(c.requests) :
      LET headers == c.requests[k].headers
          client == clients[c.client]
      IN /\ "Content-Type" \in DOMAIN headers
         /\ headers["Content-Type"] = "application/json"
         /\ ("x-api-key" \in DOMAIN headers) <=> HasApiKey(client)
         /\ "x-api-key" \in DOMAIN headers =>
              headers["x-api-key"] = Val(getConfig(client).apiKey)
         /\ client.args.apiKey = None => "x-api-key" \notin DOMAIN headers
         /\ DOMAIN headers \subseteq {"Content-Type", "x-api-key"}

\* C18 witness: a health() of the client configured with the key "secret-key"
\* is on the wire with that key in x-api-key
C18_Witness ==
  \E c \in CallSet :
    /\ c.inv.op = "health" /\ c.pc = "fetch"
    /\ clients[c.client].args.apiKey = Some(KEY1)
    /\ Req(c).headers["x-api-key"] = KEY1
    /\ Req(c).headers["Content-Type"] = "application/json"

\* C19: the client never overrides server decisions: for every successful
\* response inject resolves to exactly the response body (memories,
\* injectionText and shouldInject unchanged) and extract resolves to exactly
\* the response body (shouldExtract, extracted and skippedDuplicates
\* unchanged), whatever the request's contextLength, maxContextLength or
\* extractThreshold were.
C19_ServerDecides ==
  \A c \in CallSet :
    (c.inv.op \in {"inject", "extract"} /\ Succeeded(c)) =>
      c.outcome = Some(Fulfilled(ResponseBody(c)))

\* C19 witness: an inject sent with contextLength 9000, above the client's
\* maxContextLength, was told shouldInject with no memories and resolved to
\* exactly that
C19_Witness ==
  \E c \in CallSet :
    /\ c.inv.op = "inject" /\ Succeeded(c)
    /\ BodyOf(c).contextLength = 9000 /\ BodyOf(c).maxContextLength < 9000
    /\ ResponseBody(c).t = "object"
    /\ Get(ResponseBody(c), "shouldInject") = Some(TRUE)
    /\ Get(ResponseBody(c), "memories") = Some(<<>>)
    /\ Val(c.outcome).state = "fulfilled"
    /\ Get(Val(c.outcome).value, "shouldInject") = Some(TRUE)

AsyncOps == {"memorize", "extract"}

\* the same invocation with the async flag omitted
WithoutFlag(inv) == [inv EXCEPT !.options.async = None]

C20_Inv ==
  \A c \in CallSet :
    c.inv.op \in AsyncOps =>
      /\ c.pc = "fetch" => (c.outcome = None /\ c.response = None /\ c.thrown = None)
      /\ Settled(c) => (c.response # None \/ c.thrown # None)
      /\ (Settled(c) /\ Val(c.outcome).state = "fulfilled") =>
           (c.response # None /\ Val(c.response).status \in 200..299)
      /\ LET plain == opRequest(getConfig(clients[c.client]), WithoutFlag(c.inv))
         IN /\ Val(plain.body).async = FALSE
            /\ Req(c) = [plain EXCEPT !.body =
                           Some([Val(plain.body) EXCEPT !.async = (c.inv.options.async = Some(TRUE))])]

\* no invocation starts out completed, and one completes only in the step
\* that delivers its response or the failure of its fetch
C20_Step ==
  \A j \in 1..Len(calls') :
    (calls'[j].inv.op \in AsyncOps /\ calls'[j].pc = "done") =>
      \E i \in 1..Len(calls) :
        \/ calls[i] = calls'[j]
        \/ /\ calls[i].pc = "fetch"
           /\ calls[i].inv = calls'[j].inv
           /\ calls[i].requests = calls'[j].requests
           /\ calls'[j].response # None \/ calls'[j].thrown # None

\* C20: the async flag does not change client-side ordering: a memorize or
\* extract call made with async:true completes (resolves or rejects) only
\* after the HTTP response for its request has arrived (or its fetch has
\* failed), exactly as with async:false; the flag's only effect is the async
\* field of the request body.
C20_AsyncAwaits == [](C20_Inv) /\ [][C20_Step]_vars

\* C20 witness: a memorize with async: true, sent with async true in its body,
\* has resolved after its 200 response arrived
C20_Witness ==
  \E c \in CallSet :
    /\ c.inv.op = "memorize" /\ c.inv.options.async = Some(TRUE)
    /\ BodyOf(c).async = TRUE
    /\ Succeeded(c) /\ Val(c.outcome).state = "fulfilled"

----------------------------------------------------------------------------
(* Claims on the configuration: its lifetime and where it comes from *)

C21_Inv ==
  /\ \A i \in 1..Len(clients) : clients[i].config = Constructor(clients[i].args)
  /\ \A c \in CallSet :
       LET resolved == Constructor(clients[c.client].args)
       IN /\ Req(c) = opRequest(resolved, c.inv)
          /\ Req(c).url[1] = resolved.url
          /\ BodyOf(c).maxContextLength = resolved.maxContextLength
          /\ c.inv.op = "extract" => BodyOf(c).extractThreshold = resolved.extractThreshold
          /\ ("x-api-key" \in DOMAIN Req(c).headers) = TruthyStr(resolved.apiKey)
  /\ (got # None /\ Val(got).url # MUTATED) =>
       \E i \in 1..Len(clients) : Val(got) = Constructor(clients[i].args)

\* no step changes a client that exists
C21_Step ==
  \A i \in 1..Len(clients) : i <= Len(clients') /\ clients'[i] = clients[i]

\* C21: a client's resolved configuration never changes after construction:
\* no sequence of operations on it, no write to an object returned by
\* getConfig(), no construction of other clients and no configure() of the
\* singleton alters the url, API key, maxContextLength or extractThreshold
\* that this client uses in its requests and returns from getConfig().
C21_ConfigImmutable == [](C21_Inv) /\ [][C21_Step]_vars

\* C21 witness: the object getConfig() returned has been overwritten, a second
\* client has been installed by configure(), and an inject of the first
\* client, built for URL1 with maxContextLength 4000, is on the wire to URL1
\* with 4000
C21_Witness ==
  \E c \in CallSet :
    /\ got # None /\ Val(got).url = MUTATED
    /\ Len(clients) = 2 /\ clients[2].by = "configure" /\ clients[1].by = "new"
    /\ clients[1].args.url = Some(URL1)
    /\ c.client = 1 /\ c.pc = "fetch" /\ c.inv.op = "inject"
    /\ Req(c).url[1] = URL1 /\ BodyOf(c).maxContextLength = 4000

\* the first non-empty value among two optional strings
FirstNonEmpty(a, b) == IF TruthyStr(a) THEN a ELSE IF TruthyStr(b) THEN b ELSE None

\* the argument of the configure() in force when n clients had been
\* constructed; every field omitted when there was none
ExplicitAt(n) ==
  IF Configured(n) # {} THEN clients[Last(Configured(n))].args ELSE EmptyConfig

\* C22 as stated: for singleton convenience calls the server URL and the API
\* key are each the first non-empty value among the explicitly configured
\* value and the environment value (PERMEM_URL, PERMEM_API_KEY), the default
\* URL being used only when both are empty, for every combination of explicit
\* value (never configured, configured with the field omitted, configured
\* with the field given) and environment value (unset, empty, set).
C22_EnvOrExplicit ==
  \A c \in CallSet :
    c.singleton =>
      LET url == FirstNonEmpty(ExplicitAt(c.epoch).url, env.PERMEM_URL)
          key == FirstNonEmpty(ExplicitAt(c.epoch).apiKey, env.PERMEM_API_KEY)
      IN /\ Req(c).url[1] = (IF url = None THEN "http://localhost:3333" ELSE Val(url))
         /\ ("x-api-key" \in DOMAIN Req(c).headers) = (key # None)
         /\ key # None => Req(c).headers["x-api-key"] = Val(key)

----------------------------------------------------------------------------
(* Claims on the example CLI chat *)

\* C23: at the end of a chat turn an extract request is issued if and only if
\* the conversation is non-empty and at least EXTRACT_MESSAGE_THRESHOLD
\* (default 10) messages have been added since the last recorded extraction;
\* so extraction happens once per 10 new messages and never earlier, except
\* for the forced extraction on exit. (The end of a turn is step 6 of chat():
\* a turn whose LLM call failed has none.)
C23_TurnEndExtraction ==
  /\ cli.decision # None =>
       LET d == Val(cli.decision)
       IN d.issued <=> (d.length # 0 /\ d.length - d.last >= cli.threshold)
  /\ cli.main = "extract" =>
       /\ cli.decision # None /\ Val(cli.decision).issued
       /\ cli.turn.replied

\* C23 witness: with the default threshold the fifth turn ended with 10
\* messages, none extracted before, and its extract request is in flight
C23_Witness ==
  /\ cli.threshold = 10 /\ cli.main = "extract"
  /\ Val(cli.decision).length = 10 /\ Val(cli.decision).last = 0
  /\ cli.turns = 5

C24_Inv ==
  /\ \A k \in 1..Len(cli.quits) :
       cli.quits[k].history # <<>> =>
         /\ cli.quits[k].request # None
         /\ Val(cli.quits[k].request).messages = cli.quits[k].history
  /\ cli.exited =>
       \E k \in 1..Len(cli.quits) :
         /\ cli.quits[k].by = cli.exitedBy
         /\ cli.quits[k].settled

\* the process exits with a non-empty conversation only in the step that
\* delivers the outcome of the forced extraction to the one who exits
C24_Step ==
  (cli'.exited /\ ~cli.exited /\ cli.messages # <<>>) =>
    \/ cli.main = "exitExtract" /\ cli'.exitedBy = "exit"
    \/ cli.closeHandler = "extract" /\ cli'.exitedBy = "close"

\* C24: both the exit command and closing the input (Ctrl+C) save memories
\* before quitting: whenever the conversation holds at least one message, an
\* extract request containing the whole current message history is issued and
\* awaited before the process exits, regardless of the extraction threshold.
C24_SaveBeforeQuit == [](C24_Inv) /\ [][C24_Step]_vars

\* C24 witness: with the default threshold and 2 messages, the input closed,
\* an extract of both messages was issued, and the process exited after it
\* settled
C24_Witness ==
  /\ cli.exited /\ cli.exitedBy = "close" /\ cli.threshold = 10
  /\ Len(cli.quits) = 1 /\ cli.quits[1].settled
  /\ Len(cli.quits[1].history) = 2
  /\ Len(Val(cli.quits[1].request).messages) = 2

\* C25: a failure of the memory service never fails a chat turn: if inject
\* rejects, the turn proceeds to the LLM call with no memory context and both
\* the user message and the assistant reply are appended to the history; if
\* extract rejects, the turn still returns the assistant reply.
C25_MemoryFailureTolerated ==
  LET t == cli.turn
  IN /\ t.injectFailed =>
          /\ t.system = Some("")
          /\ \E i \in 1..Len(cli.messages) : cli.messages[i] = UserMessage(t.n)
          /\ t.error => ~t.replied
     /\ (t.injectFailed /\ t.replied) =>
          \E i \in 1..(Len(cli.messages) - 1) :
            /\ cli.messages[i] = UserMessage(t.n)
            /\ cli.messages[i + 1] = AssistantMessage(t.n)
     /\ t.extractFailed => (t.returned /\ t.replied /\ ~t.error)

\* C25 witness: a turn whose inject and whose extract both rejected has
\* returned its reply
C25_Witness ==
  /\ cli.turn.injectFailed /\ cli.turn.extractFailed
  /\ cli.turn.returned /\ cli.main = "prompt"

\* the response reports at least one extracted memory or at least one skipped
\* duplicate
Reports(o) ==
  /\ o.state = "fulfilled" /\ DOMAIN o.value = {"extracted", "skippedDuplicates"}
  /\ \E f \in {"extracted", "skippedDuplicates"} :
       o.value[f] # None /\ Val(o.value[f]) >= 1

\* what a settled extract request does to the conversation
C26_Step ==
  cli'.lastResult # None =>
    IF Reports(Val(cli'.lastResult))
    THEN /\ cli'.lastExtractionCount = Len(cli'.messages)
         /\ cli'.messages =
              IF Len(cli.messages) > 10
              THEN SubSeq(cli.messages, Len(cli.messages) - 9, Len(cli.messages))
              ELSE cli.messages
    ELSE /\ cli'.messages = cli.messages
         /\ cli'.lastExtractionCount = cli.lastExtractionCount

\* after an extraction at the end of a turn that recorded nothing, the end of
\* the next turn issues an extract request again
C26_Inv ==
  (cli.decision # None /\ Val(cli.decision).retry) => Val(cli.decision).issued

\* C26: extractMemories changes the conversation state only when the extract
\* response reports at least one extracted memory or at least one skipped
\* duplicate: then lastExtractionCount is set to messages.length and, if more
\* than 10 messages are held, the history is cut to the 10 most recent ones;
\* on a failed request or a response reporting neither, messages and
\* lastExtractionCount are unchanged, so the same extraction is attempted
\* again at the end of the next turn.
C26_ExtractRecords == [](C26_Inv) /\ [][C26_Step]_vars

\* C26 witness: an extract response reporting memories arrived with 12
\* messages held, and the history is now the 10 most recent, all recorded
C26_Witness ==
  /\ cli.lastResult # None /\ Reports(Val(cli.lastResult))
  /\ Len(cli.messages) = 10 /\ cli.lastExtractionCount = 10
  /\ cli.messages[1] = UserMessage(2)
  /\ cli.decision # None /\ Val(cli.decision).retry

\* C27: 0 <= lastExtractionCount <= messages.length holds in every reachable
\* state of the CLI chat, including when a forced extraction started by the
\* close handler overlaps a chat turn still in flight.
C27_CountWithinHistory ==
  cli.pc = "running" =>
    /\ 0 <= cli.lastExtractionCount
    /\ cli.lastExtractionCount <= Len(cli.messages)

\* C27 witness: the close handler's forced extraction is awaited while a chat
\* turn that already pushed its user message awaits the LLM, with 4 of the 5
\* messages recorded as extracted
C27_Witness ==
  /\ cli.closeHandler = "extract" /\ cli.main = "llm"
  /\ cli.lastExtractionCount = 4 /\ Len(cli.messages) = 5

\* C28: the forced shutdown extraction runs at most once per process, for
\* every interleaving of the exit command with the readline close event
\* (including close arriving while the exit command's extraction is
\* awaiting).
C28_ForcedOnce ==
  cli.pc = "running" =>
    Cardinality({k \in 1..Len(cli.quits) : cli.quits[k].request # None}) <= 1

----------------------------------------------------------------------------
(* Claims on the dashboard front end *)

\* the Authorization header of a request issued while `stored` was the
\* localStorage item
BearerOf(stored) == IF stored # None THEN Some("Bearer " \o Val(stored)) ELSE None

C29_Inv ==
  /\ isAuthenticated(dash) <=> dash.token # None
  /\ \A r \in dash.requests : r.headers.Authorization = BearerOf(r.stored)

C29_Step ==
  LET e == dash'.event
  IN /\ (e.kind \in {"signup", "login"} /\ e.ok) => dash'.token = e.token
     /\ (e.kind \in {"signup", "login"} /\ ~e.ok) => dash'.token = dash.token
     /\ e.kind = "logout" => dash'.token = None
     /\ e.kind = "none" => dash'.token = dash.token

\* C29: in the dashboard API client, isAuthenticated() is true exactly when
\* a token is stored; the token is set to the response's token after every
\* successful signup or login, removed by logout, and left unchanged by a
\* failing signup or login; every backend request carries
\* `Authorization: Bearer <token>` if and only if a token is stored at the
\* time of the request.
C29_TokenAndHeader == [](C29_Inv) /\ [][C29_Step]_vars

\* C29 witness: the profile request went out with the token of the earlier
\* visit, a login then succeeded with another token, and the stats request
\* carried that one
C29_Witness ==
  /\ dash.token = Some(TOKEN2)
  /\ \E q, r \in dash.requests :
       /\ q.op = "getMe" /\ q.headers.Authorization = Some("Bearer t1")
       /\ r.op = "getProjectStats" /\ r.headers.Authorization = Some("Bearer t2")

PageRequests == {"getMe", "getProjectStats", "getProjectMemories"}

Issued(op) == \E r \in dash.requests : r.op = op

Pushed(path) == \E k \in 1..Len(dash.page.nav) : dash.page.nav[k] = path

C30_Inv ==
  LET pg == dash.page
  IN /\ (Issued("getProjectStats") \/ Issued("getProjectMemories")) =>
          (pg.me = "ok" /\ pg.project # None)
     /\ Issued("getProjectStats") <=> Issued("getProjectMemories")
     /\ ("failed" \in {pg.me, pg.stats, pg.memories}) => Pushed(LOGIN)
     /\ pg.authenticated = Some(FALSE) =>
          (Pushed(LOGIN) /\ \A op \in PageRequests : ~Issued(op))

C30_TokenOnMount == dash.page.authenticated = Some(TRUE)

C30_Loaded == dash.page.loading = FALSE

\* C30: on the dashboard page, loading always finishes: with a token on
\* mount, loadData eventually sets loading to false whether its requests
\* succeed or fail; the stats and memories requests are issued only after the
\* profile request succeeded with a project; any failed request navigates to
\* /auth/login; with no token the page navigates to /auth/login without
\* issuing any backend request.
C30_LoadingFinishes == [](C30_Inv) /\ (C30_TokenOnMount ~> C30_Loaded)

\* C30 witness: the stats request failed while the memories request is still
\* awaited: the page went to the login page and stopped loading
C30_Witness ==
  /\ dash.page.authenticated = Some(TRUE)
  /\ dash.page.stats = "failed" /\ dash.page.memories = "pending"
  /\ dash.page.nav = <<LOGIN>> /\ ~dash.page.loading

====
